---- MODULE Spec2Model ----
(***************************************************************************)
(* Greedy ride-to-driver assignment (src/src/optimizer.js), its            *)
(* feasibility check and time codec (src/src/utils.js) and the distance    *)
(* service in front of the OSRM backend (src/src/distanceService.js).      *)
(*                                                                         *)
(* Numbers.  JavaScript numbers are modelled by integers plus the values   *)
(* Infinity and NaN; every arithmetic step of the code goes through the    *)
(* Js* operators below, which follow IEEE-754 for those two values.        *)
(* Undefined is the value of a missing property, Thrown stands for an      *)
(* exception leaving a function that returns a number.                     *)
(* Money is kept exact: a cost c of the code is the integer                *)
(* c * MinutesPerHour * MetersPerKm (CostScale), so that /60 and /1000     *)
(* lose nothing; order and equality of costs are unchanged by the scale.   *)
(* Coordinates are points of the equator, numbered by their distance in    *)
(* km from longitude 0; there the haversine formula is |a - b|.            *)
(***************************************************************************)
EXTENDS Integers, Sequences, FiniteSets, TLC

\* ------------------------------------------------------------------ state
VARIABLES
  drivers,          \* the drivers argument
  rides,            \* the rides argument
  config,           \* the config module: useAirDistanceFilter, maxAirDistanceKm
  options,          \* the options of the run: fairnessMode, fairnessWeight
  backendUp,        \* is the routing backend reachable during the run?
  backendSilent,    \* does the backend leave every request unanswered?
  pc,               \* where assignOptimizedRides stands
  error,            \* the exception that ended the run, or "none"
  schedules,        \* driverId -> schedule
  sortedRides,
  rideIdx,          \* position in sortedRides of the ride being processed
  driverIdx,        \* position in drivers of the driver being evaluated
  best,             \* bestDriverId, bestAdjustedCost, bestBaseCost
  result,           \* what the run returned
  evals,            \* per driver, what the evaluation of the current ride computed
  lookups,          \* the distance/time lookups of the last step, in order
  commits,          \* the commits of the run, in order
  infeasible,       \* the ids of the rides that no driver could perform
  glitched,         \* has the backend given its odd reply?
  firstResult,      \* what the previous run on the same inputs returned
  call              \* a call of the time codec on its own: step, minute, text, value

\* ------------------------------------------------------------------ bounds
\* Largest number of rides handed to one run.
MaxRides == 2
\* Number of drivers of the fleet.
NumDrivers == 2

\* ------------------------------------------------------- JavaScript values
Infinity  == 1000000000
NaN       == 0 - 1000000000
Undefined == 0 - 1000000001
Thrown    == 0 - 1000000002

MinutesPerHour == 60
SecondsPerMinute == 60
MetersPerKm == 1000
HourlyRate == 30
CostScale == MinutesPerHour * MetersPerKm

IsFinite(x) == x \notin {Infinity, NaN, Undefined, Thrown}

\* ToNumber(undefined) is NaN
ToNumber(x) == IF x = Undefined THEN NaN ELSE x

JsAdd(a, b) ==
  LET x == ToNumber(a)
      y == ToNumber(b)
  IN  IF x = NaN \/ y = NaN THEN NaN
      ELSE IF x = Infinity \/ y = Infinity THEN Infinity
      ELSE x + y

\* product of two numbers that are never negative infinity
JsMul(a, b) ==
  LET x == ToNumber(a)
      y == ToNumber(b)
  IN  IF x = NaN \/ y = NaN THEN NaN
      ELSE IF x = Infinity \/ y = Infinity
           THEN (IF x = 0 \/ y = 0 THEN NaN
                 ELSE IF x < 0 \/ y < 0 THEN 0 - Infinity ELSE Infinity)
      ELSE x * y

\* a < b and a > b of JavaScript: false as soon as one side is NaN
JsLt(a, b) ==
  LET x == ToNumber(a)
      y == ToNumber(b)
  IN  IF x = NaN \/ y = NaN THEN FALSE ELSE x < y

JsGt(a, b) == JsLt(b, a)

\* Math.ceil(x / d) for a divisor d > 0
CeilDiv(x, d) ==
  LET n == ToNumber(x)
  IN  IF n \in {NaN, Infinity} THEN n
      ELSE IF n >= 0 THEN (n + d - 1) \div d
      ELSE 0 - ((0 - n) \div d)

\* Math.round(x / d) for a divisor d > 0: halves go up
RoundDiv(x, d) ==
  LET n == ToNumber(x)
  IN  IF n \in {NaN, Infinity} THEN n ELSE (2 * n + d) \div (2 * d)

\* -------------------------------------------------------------- time codec
\* Texts are sequences of one-character strings over the digits, ":" and
\* letters (no blanks, signs, dots or exponents).
Digits == {"0", "1", "2", "3", "4", "5", "6", "7", "8", "9"}

DigitValue(c) ==
  CASE c = "0" -> 0 [] c = "1" -> 1 [] c = "2" -> 2 [] c = "3" -> 3
    [] c = "4" -> 4 [] c = "5" -> 5 [] c = "6" -> 6 [] c = "7" -> 7
    [] c = "8" -> 8 [] c = "9" -> 9

\* str.split(sep): the fields of str between the occurrences of sep
RECURSIVE Split(_, _)
Split(str, sep) ==
  IF \A i \in 1..Len(str) : str[i] # sep THEN <<str>>
  ELSE LET i == CHOOSE k \in 1..Len(str) :
                  str[k] = sep /\ \A j \in 1..(k - 1) : str[j] # sep
       IN  <<SubSeq(str, 1, i - 1)>> \o Split(SubSeq(str, i + 1, Len(str)), sep)

RECURSIVE DecimalValue(_)
DecimalValue(str) ==
  IF str = <<>> THEN 0
  ELSE 10 * DecimalValue(SubSeq(str, 1, Len(str) - 1)) + DigitValue(str[Len(str)])

\* The text standing for undefined (a destructured field that is missing)
UndefinedText == <<"undefined">>

\* Number(x) of a text or of undefined: "" is 0, a run of digits its value
Number(x) ==
  IF x = UndefinedText THEN NaN
  ELSE IF \A i \in 1..Len(x) : x[i] \in Digits THEN DecimalValue(x)
  ELSE NaN

\* utils.js parseTimeToMinutes: minutes since midnight, or Thrown
parseTimeToMinutes(timeStr) ==
  LET fields     == Split(timeStr, ":")
      hoursStr   == fields[1]
      minutesStr == IF Len(fields) >= 2 THEN fields[2] ELSE UndefinedText
      hours      == Number(hoursStr)
      minutes    == Number(minutesStr)
      isValid    == /\ hours # NaN
                    /\ minutes # NaN
                    /\ hours >= 0 /\ hours <= 23
                    /\ minutes >= 0 /\ minutes <= 59
  IN  IF ~isValid THEN Thrown ELSE hours * MinutesPerHour + minutes

\* n.toString() of a natural number: its decimal digits
DigitChar(d) == CHOOSE c \in Digits : DigitValue(c) = d

RECURSIVE toString(_)
toString(n) ==
  IF n < 10 THEN <<DigitChar(n)>>
  ELSE toString(n \div 10) \o <<DigitChar(n % 10)>>

\* str.padStart(targetLength, padChar) and str.padEnd(targetLength, padChar)
padStart(str, targetLength, padChar) ==
  [i \in 1..(IF Len(str) < targetLength THEN targetLength - Len(str) ELSE 0)
     |-> padChar] \o str

padEnd(str, targetLength, padChar) ==
  str \o [i \in 1..(IF Len(str) < targetLength THEN targetLength - Len(str) ELSE 0)
            |-> padChar]

\* pad filling at the end of the digits instead of in front of them
padAtEnd(n) == padEnd(toString(n), 2, "0")

\* pad: a number as two digits (7 gives "07")
pad(n) == padStart(toString(n), 2, "0")

\* The minutes of a day, as randomTimeWindow wraps them: total % (24 * 60)
HoursPerDay == 24
MinutesPerDay == HoursPerDay * MinutesPerHour

\* randomTimeWindow, the formatting of a total of minutes since midnight:
\* `${pad(Math.floor(total / 60))}:${pad(total % 60)}`
formatTime(total) ==
  pad(total \div MinutesPerHour) \o <<":">> \o pad(total % MinutesPerHour)

\* ------------------------------------------------------- distance service
\* A reply of the routing backend to one request: the request fails
\* ("error": network error, HTTP error, rate limit), the reply has an empty
\* routes list ("noRoutes"), or it has a first route whose duration
\* (seconds) and distance (metres) are numbers or are missing.
ErrorReply    == [kind |-> "error"]
NoRoutesReply == [kind |-> "noRoutes"]
Route(secs, meters) == [kind |-> "route", duration |-> secs, distance |-> meters]

\* res.data.routes[0].<field> after "await axios.get(url)": the rejected
\* request throws, and so does reading a property of routes[0] = undefined
RouteField(reply, field) ==
  IF reply.kind = "error" THEN Thrown
  ELSE IF reply.kind = "noRoutes" THEN Thrown
  ELSE reply[field]

\* getAirDistanceKm, on the equator: R * c = |lon1 - lon2| in km
Abs(x) == IF x < 0 THEN 0 - x ELSE x
getAirDistanceKm(coord1, coord2) == Abs(coord2 - coord1)

\* rawTravelTime: whole minutes, at least 1; Infinity from the catch block
\* rawTravelTime without its try/catch: a failed request leaves the function
\* as an exception
rawTravelTimeNoCatch(reply) ==
  LET secs == RouteField(reply, "duration")
  IN  IF secs = Thrown THEN Thrown
      ELSE LET mins == CeilDiv(secs, SecondsPerMinute)
           IN  IF JsLt(mins, 1) THEN 1 ELSE mins

\* rawTravelTime without "mins < 1 ? 1 : mins": a duration of 0 gives 0 minutes
rawTravelTimeNoFloor(reply) ==
  LET secs == RouteField(reply, "duration")
  IN  IF secs = Thrown THEN Infinity ELSE CeilDiv(secs, SecondsPerMinute)

rawTravelTime(reply) ==
  LET secs == RouteField(reply, "duration")
  IN  IF secs = Thrown THEN Infinity
      ELSE LET mins == CeilDiv(secs, SecondsPerMinute)
           IN  IF JsLt(mins, 1) THEN 1 ELSE mins

\* the filter with >= for >: a pair exactly at the threshold is filtered out
airFilteredAtThreshold(fromCoords, toCoords, maxAirDistanceKm) ==
  getAirDistanceKm(fromCoords, toCoords) >= maxAirDistanceKm

\* the filter that lets every pair through
airFilteredNever(fromCoords, toCoords, maxAirDistanceKm) == FALSE

\* Does filteredTravelTime skip the backend for this pair?
airFiltered(fromCoords, toCoords, maxAirDistanceKm) ==
  getAirDistanceKm(fromCoords, toCoords) > maxAirDistanceKm

filteredTravelTime(fromCoords, toCoords, maxAirDistanceKm, reply) ==
  IF airFiltered(fromCoords, toCoords, maxAirDistanceKm) THEN Infinity
  ELSE rawTravelTime(reply)

\* getTravelTimeInMinutes reads the module-level config, never the options
getTravelTimeInMinutes(fromCoords, toCoords, cfg, reply) ==
  IF cfg.useAirDistanceFilter
  THEN filteredTravelTime(fromCoords, toCoords, cfg.maxAirDistanceKm, reply)
  ELSE rawTravelTime(reply)

\* Is a backend request issued by getTravelTimeInMinutes for this pair?
travelTimeRequests(fromCoords, toCoords, cfg) ==
  ~(cfg.useAirDistanceFilter
    /\ airFiltered(fromCoords, toCoords, cfg.maxAirDistanceKm))

\* getTravelDistanceInKm, in metres (the code divides by 1000; costs are
\* scaled instead): Infinity from the catch block
getTravelDistanceInKm(reply) ==
  LET meters == RouteField(reply, "distance")
  IN  IF meters = Thrown THEN Infinity ELSE ToNumber(meters)

\* ----------------------------------------------------------------- inputs
\* Drivers and rides are drawn from these records.  Places are 0, 5 and 6 km
\* along the equator, so that with the default threshold of 5 km a pair is
\* under it (0 or 1 km), exactly on it (5 km) or over it (6 km).
\* The first ride is reached in time from both homes (from 6 km with no
\* minute to spare), the second one starts a minute after the first ends
\* where the first ends, the third asks for more seats than any driver has.
DefaultMaxAirDistanceKm == 5
ExampleFairnessWeight == 20

DriverProfiles ==
  { [status |-> "active",   numberOfSeats |-> 4, fuelCost |-> 2, city_coords |-> 0],
    [status |-> "active",   numberOfSeats |-> 4, fuelCost |-> 0, city_coords |-> 6],
    [status |-> "inactive", numberOfSeats |-> 4, fuelCost |-> 2, city_coords |-> 5] }

RideProfiles ==
  { [startTime |-> <<"0", "0", ":", "0", "6">>, endTime |-> <<"0", "0", ":", "1", "1">>,
     startPoint_coords |-> 0, endPoint_coords |-> 5, numberOfSeats |-> 2],
    [startTime |-> <<"0", "0", ":", "1", "2">>, endTime |-> <<"0", "0", ":", "1", "3">>,
     startPoint_coords |-> 5, endPoint_coords |-> 6, numberOfSeats |-> 4],
    [startTime |-> <<"0", "0", ":", "0", "1">>, endTime |-> <<"0", "0", ":", "0", "1">>,
     startPoint_coords |-> 6, endPoint_coords |-> 0, numberOfSeats |-> 5] }

WithId(profile, key, id) == [f \in DOMAIN profile \cup {key} |->
                               IF f = key THEN id ELSE profile[f]]

DriverLists ==
  { [i \in 1..NumDrivers |-> WithId(f[i], "driverId", i)] :
      f \in [1..NumDrivers -> DriverProfiles] }

RideLists ==
  UNION { { [i \in 1..n |-> WithId(f[i], "_id", i)] : f \in [1..n -> RideProfiles] } :
          n \in 1..MaxRides }

\* Rides for a driver whose home is 6 km from the start of the second ride:
\* the first ride starts at that home and ends, early enough, where the
\* second ride starts.
DetourRideProfiles ==
  { [startTime |-> <<"0", "0", ":", "0", "1">>, endTime |-> <<"0", "0", ":", "0", "2">>,
     startPoint_coords |-> 6, endPoint_coords |-> 0, numberOfSeats |-> 2],
    [startTime |-> <<"0", "0", ":", "0", "6">>, endTime |-> <<"0", "0", ":", "1", "1">>,
     startPoint_coords |-> 0, endPoint_coords |-> 5, numberOfSeats |-> 2] }

\* Rides with time texts that parseTimeToMinutes rejects: an hour of 24 as
\* start, a minute of 60 as end; the third ride is well formed.
MalformedRideProfiles ==
  { [startTime |-> <<"2", "4", ":", "0", "0">>, endTime |-> <<"0", "0", ":", "1", "1">>,
     startPoint_coords |-> 0, endPoint_coords |-> 5, numberOfSeats |-> 2],
    [startTime |-> <<"0", "0", ":", "0", "6">>, endTime |-> <<"1", "2", ":", "6", "0">>,
     startPoint_coords |-> 0, endPoint_coords |-> 5, numberOfSeats |-> 2],
    [startTime |-> <<"0", "0", ":", "0", "6">>, endTime |-> <<"0", "0", ":", "1", "1">>,
     startPoint_coords |-> 0, endPoint_coords |-> 5, numberOfSeats |-> 2] }

RideListsOver(profiles) ==
  UNION { { [i \in 1..n |-> WithId(f[i], "_id", i)] : f \in [1..n -> profiles] } :
          n \in 1..MaxRides }

AllRideProfiles == RideProfiles \cup DetourRideProfiles \cup MalformedRideProfiles

\* parseTimeToMinutes over the time texts of the inputs, computed once
TimeTexts == {p.startTime : p \in AllRideProfiles} \cup {p.endTime : p \in AllRideProfiles}
ParsedTimes == [t \in TimeTexts |-> parseTimeToMinutes(t)]
minutesOf(timeStr) == ParsedTimes[timeStr]

\* ------------------------------------------------------------- cost model
\* computePenalty: fairnessWeight * ((currentCount + 1) ** 2 - 1), scaled.
\* A weight is a float of the code (parseFloat); the model holds the weight
\* w as the integer w * WeightScale, so that a weight of one half exists.
WeightScale == 2

\* a penalty that ignores the count: fairnessWeight alone
computePenaltyFlat(currentCount, fairnessWeight) ==
  (CostScale \div WeightScale) * fairnessWeight

computePenalty(currentCount, fairnessWeight) ==
  (CostScale \div WeightScale) * fairnessWeight
    * ((currentCount + 1) * (currentCount + 1) - 1)

\* calculateRideCost with the replies to its three requests.  previousRide is
\* a ride or NoRide.  threw: the exception that left the function ("none"
\* when it returned); lookups: how many lookups were called before the
\* function returned or threw.
NoRide == [_id |-> 0]

\* fromCoords taken from the driver's home whatever the last ride
emptyFromHome(driver, previousRide) == driver.city_coords

emptyFrom(driver, previousRide) ==
  IF previousRide._id # 0 THEN previousRide.endPoint_coords ELSE driver.city_coords

calculateRideCost(driver, ride, lastRide, cfg, reply1, reply2, reply3) ==
  LET fromCoords    == emptyFrom(driver, lastRide)
      emptyTime     == getTravelTimeInMinutes(fromCoords, ride.startPoint_coords,
                                              cfg, reply1)
      emptyDistance == getTravelDistanceInKm(reply2)
      endMin        == minutesOf(ride.endTime)
      startMin      == minutesOf(ride.startTime)
      rideTime      == endMin - startMin
      timeCost      == JsMul(JsAdd(emptyTime, rideTime), HourlyRate * MetersPerKm)
      rideDistance  == getTravelDistanceInKm(reply3)
      fuelCost      == JsMul(JsMul(driver.fuelCost, JsAdd(emptyDistance, rideDistance)),
                             MinutesPerHour)
      Throw(e, n)   == [threw |-> e, baseCost |-> Undefined, emptyTime |-> emptyTime,
                        lookups |-> n]
  IN  IF emptyTime = Thrown THEN Throw("RequestFailed", 1)
      ELSE IF emptyDistance = Thrown THEN Throw("RequestFailed", 2)
      ELSE IF endMin = Thrown \/ startMin = Thrown THEN Throw("InvalidTime", 2)
      ELSE IF rideDistance = Thrown THEN Throw("RequestFailed", 3)
      ELSE [threw |-> "none", baseCost |-> JsAdd(timeCost, fuelCost),
            emptyTime |-> emptyTime, lookups |-> 3]

\* ------------------------------------------------------ feasibility check
\* canDriverPerformRide looking the travel time up before it tests status
\* and seats: the driver that is rejected for them has cost a lookup
canDriverPerformRideLookupFirst(driver, ride, previousRide, cfg, reply) ==
  LET rideStart   == minutesOf(ride.startTime)
      previousEnd == IF previousRide._id # 0 THEN minutesOf(previousRide.endTime) ELSE 0
      fromCoords  == IF previousRide._id # 0 THEN previousRide.endPoint_coords
                     ELSE driver.city_coords
      travelTime  == getTravelTimeInMinutes(fromCoords, ride.startPoint_coords,
                                            cfg, reply)
      eligible    == /\ driver.status = "active"
                     /\ driver.numberOfSeats >= ride.numberOfSeats
  IN  IF travelTime = Thrown \/ rideStart = Thrown \/ previousEnd = Thrown
      THEN [value |-> FALSE, threw |-> "RequestFailed", lookups |-> 1,
            travelTime |-> Undefined]
      ELSE [value |-> eligible /\ ~JsGt(JsAdd(previousEnd, travelTime), rideStart),
            threw |-> "none", lookups |-> 1, travelTime |-> travelTime]

\* canDriverPerformRide without its two arrival comparisons: an active driver
\* with enough seats can perform the ride whatever the lookup returned
canDriverPerformRideAnyArrival(driver, ride, previousRide, cfg, reply) ==
  LET fromCoords  == IF previousRide._id # 0 THEN previousRide.endPoint_coords
                     ELSE driver.city_coords
      travelTime  == getTravelTimeInMinutes(fromCoords, ride.startPoint_coords,
                                            cfg, reply)
      eligible    == /\ driver.status = "active"
                     /\ driver.numberOfSeats >= ride.numberOfSeats
  IN  IF ~eligible
      THEN [value |-> FALSE, threw |-> "none", lookups |-> 0, travelTime |-> Undefined]
      ELSE IF travelTime = Thrown
      THEN [value |-> FALSE, threw |-> "RequestFailed", lookups |-> 1,
            travelTime |-> Undefined]
      ELSE [value |-> TRUE, threw |-> "none", lookups |-> 1, travelTime |-> travelTime]

\* canDriverPerformRide with the reply to its request.  value: what the
\* function returns; threw: the exception that left it ("none" when it
\* returned); lookups: the number of travel-time lookups it called (0 or 1).
canDriverPerformRide(driver, ride, previousRide, cfg, reply) ==
  LET rideStart   == minutesOf(ride.startTime)
      previousEnd == minutesOf(previousRide.endTime)
      fromCoords  == emptyFrom(driver, previousRide)
      travelTime  == getTravelTimeInMinutes(fromCoords, ride.startPoint_coords,
                                            cfg, reply)
      Return(v, n, t) == [value |-> v, threw |-> "none", lookups |-> n, travelTime |-> t]
      Throw(e, n)     == [value |-> FALSE, threw |-> e, lookups |-> n,
                          travelTime |-> Undefined]
  IN  IF driver.status # "active" THEN Return(FALSE, 0, Undefined)
      ELSE IF driver.numberOfSeats < ride.numberOfSeats THEN Return(FALSE, 0, Undefined)
      ELSE IF rideStart = Thrown THEN Throw("InvalidTime", 0)
      ELSE IF previousRide._id # 0
      THEN IF previousEnd = Thrown THEN Throw("InvalidTime", 0)
           ELSE IF travelTime = Thrown THEN Throw("RequestFailed", 1)
           ELSE IF JsGt(JsAdd(previousEnd, travelTime), rideStart)
           THEN Return(FALSE, 1, travelTime)
           ELSE Return(TRUE, 1, travelTime)
      ELSE IF travelTime = Thrown THEN Throw("RequestFailed", 1)
           ELSE IF JsGt(travelTime, rideStart)
           THEN Return(FALSE, 1, travelTime)
           ELSE Return(TRUE, 1, travelTime)

\* -------------------------------------------------------------- scheduler
NoDriver == 0

\* assignOptimizedRides, the destructuring of its options:
\* const { field = default } = options
optionOr(opts, field, default) ==
  IF field \in DOMAIN opts THEN opts[field] ELSE default

\* the filter settings that the destructuring leaves in the locals
\* useAirDistanceFilter and maxAirDistanceKm (no statement reads them)
requestedFilter(opts, cfg) ==
  [useAirDistanceFilter |-> optionOr(opts, "useAirDistanceFilter", cfg.useAirDistanceFilter),
   maxAirDistanceKm     |-> optionOr(opts, "maxAirDistanceKm", cfg.maxAirDistanceKm)]

\* travelFn = getTravelTimeFn || getTravelTimeInMinutes: is it the caller's?
\* It is handed to canDriverPerformRide as a fourth argument, for which that
\* function has no parameter.
suppliesTravelFn(opts) == "getTravelTimeFn" \in DOMAIN opts

\* initializeSchedules on a schedules object kept between the calls (a
\* module-level object instead of the local one): what an earlier run left
\* in it stays
initializeSchedulesKept(ds) ==
  IF schedules # << >> THEN schedules
  ELSE [d \in 1..Len(ds) |-> [rides |-> <<>>, baseCost |-> 0, penaltyCost |-> 0,
                              lastRide |-> 0]]

\* initializeSchedules: one empty schedule per driver (rides holds ride ids,
\* lastRide the id of the last ride or 0 for null)
initializeSchedules(ds) ==
  [d \in 1..Len(ds) |-> [rides |-> <<>>, baseCost |-> 0, penaltyCost |-> 0,
                         lastRide |-> 0]]

\* rides.slice().sort((a, b) => parse(a.startTime) - parse(b.startTime)):
\* the sort is stable; the comparator runs (and may throw) only when there
\* are at least two rides, and then it reads every ride.
InsertByStart(sorted, ride) ==
  LET key(r) == minutesOf(r.startTime)
      n      == Cardinality({i \in 1..Len(sorted) : key(sorted[i]) <= key(ride)})
  IN  SubSeq(sorted, 1, n) \o <<ride>> \o SubSeq(sorted, n + 1, Len(sorted))

RECURSIVE StableSortByStart(_)
StableSortByStart(rs) ==
  IF rs = <<>> THEN <<>>
  ELSE InsertByStart(StableSortByStart(SubSeq(rs, 1, Len(rs) - 1)), rs[Len(rs)])

\* rides.slice() without the sort
sortRidesByStartTimeUnsorted(rs) ==
  [threw |-> "none", value |-> rs]

sortRidesByStartTime(rs) ==
  IF Len(rs) >= 2 /\ \E i \in 1..Len(rs) : minutesOf(rs[i].startTime) = Thrown
  THEN [threw |-> "InvalidTime", value |-> <<>>]
  ELSE IF Len(rs) < 2 THEN [threw |-> "none", value |-> rs]
  ELSE [threw |-> "none", value |-> StableSortByStart(rs)]

\* the guard without its negation: if (canPerform) continue;
skipDriverInverted(canPerform) == canPerform

\* findBestDriverForRide: if (!canPerform) continue;
skipDriver(canPerform) == ~canPerform

\* the comparison with <= for <: among equal costs the last driver wins
updateBestOrEqual(bestSoFar, driverId, baseCost, adjustedCost) ==
  IF JsLt(adjustedCost, bestSoFar.bestAdjustedCost)
     \/ (adjustedCost # NaN /\ adjustedCost = bestSoFar.bestAdjustedCost)
  THEN [bestDriverId |-> driverId, bestAdjustedCost |-> adjustedCost,
        bestBaseCost |-> baseCost]
  ELSE bestSoFar

\* the comparison with > for <: nothing is above the initial Infinity
updateBestGreater(bestSoFar, driverId, baseCost, adjustedCost) ==
  IF JsGt(adjustedCost, bestSoFar.bestAdjustedCost)
  THEN [bestDriverId |-> driverId, bestAdjustedCost |-> adjustedCost,
        bestBaseCost |-> baseCost]
  ELSE bestSoFar

\* the comparison written as if (!(adjustedCost >= bestAdjustedCost)): a cost
\* that is not a number replaces the best
updateBestUnlessGreaterOrEqual(bestSoFar, driverId, baseCost, adjustedCost) ==
  IF ToNumber(adjustedCost) = NaN \/ JsLt(adjustedCost, bestSoFar.bestAdjustedCost)
  THEN [bestDriverId |-> driverId, bestAdjustedCost |-> adjustedCost,
        bestBaseCost |-> baseCost]
  ELSE bestSoFar

\* findBestDriverForRide, the comparison that keeps the minimum:
\* if (adjustedCost < bestAdjustedCost) { best... = ... }
updateBest(bestSoFar, driverId, baseCost, adjustedCost) ==
  IF JsLt(adjustedCost, bestSoFar.bestAdjustedCost)
  THEN [bestDriverId |-> driverId, bestAdjustedCost |-> adjustedCost,
        bestBaseCost |-> baseCost]
  ELSE bestSoFar

\* the penalty computed whether fairnessMode is set or not
penaltyForAlways(opts, currentCount) ==
  computePenalty(currentCount, opts.fairnessWeight)

\* the penalty of one more ride for a driver holding currentCount rides
penaltyFor(opts, currentCount) ==
  IF opts.fairnessMode THEN computePenalty(currentCount, opts.fairnessWeight) ELSE 0

\* assignRide on schedules that all share one object: the ride lands in
\* every driver's list
assignRideShared(scheds, driverId, ride, baseCost, opts) ==
  LET sched   == scheds[driverId]
      penalty == penaltyFor(opts, Len(sched.rides))
  IN  [d \in DOMAIN scheds |->
         [rides       |-> Append(sched.rides, ride._id),
          baseCost    |-> JsAdd(sched.baseCost, baseCost),
          penaltyCost |-> JsAdd(sched.penaltyCost, penalty),
          lastRide    |-> ride._id]]

\* assignRide keeping the cost of the last ride only: sched.baseCost = baseCost
assignRideLastCost(scheds, driverId, ride, baseCost, opts) ==
  LET sched   == scheds[driverId]
      penalty == penaltyFor(opts, Len(sched.rides))
  IN  [scheds EXCEPT ![driverId] =
         [rides       |-> Append(sched.rides, ride._id),
          baseCost    |-> baseCost,
          penaltyCost |-> JsAdd(sched.penaltyCost, penalty),
          lastRide    |-> ride._id]]

\* assignRide putting the ride in front of the list: sched.rides.unshift(ride)
assignRideInFront(scheds, driverId, ride, baseCost, opts) ==
  LET sched   == scheds[driverId]
      penalty == penaltyFor(opts, Len(sched.rides))
  IN  [scheds EXCEPT ![driverId] =
         [rides       |-> <<ride._id>> \o sched.rides,
          baseCost    |-> JsAdd(sched.baseCost, baseCost),
          penaltyCost |-> JsAdd(sched.penaltyCost, penalty),
          lastRide    |-> ride._id]]

\* assignRide computing the penalty after the push: the count includes the
\* ride that is being committed
assignRidePenaltyAfterPush(scheds, driverId, ride, baseCost, opts) ==
  LET sched   == scheds[driverId]
      penalty == penaltyFor(opts, Len(sched.rides) + 1)
  IN  [scheds EXCEPT ![driverId] =
         [rides       |-> Append(sched.rides, ride._id),
          baseCost    |-> JsAdd(sched.baseCost, baseCost),
          penaltyCost |-> JsAdd(sched.penaltyCost, penalty),
          lastRide    |-> ride._id]]

\* assignRide that also clears lastRide in the schedules of the other drivers
assignRideClearingOthers(scheds, driverId, ride, baseCost, opts) ==
  LET sched   == scheds[driverId]
      penalty == penaltyFor(opts, Len(sched.rides))
  IN  [d \in DOMAIN scheds |->
         IF d = driverId
         THEN [rides       |-> Append(sched.rides, ride._id),
               baseCost    |-> JsAdd(sched.baseCost, baseCost),
               penaltyCost |-> JsAdd(sched.penaltyCost, penalty),
               lastRide    |-> ride._id]
         ELSE [scheds[d] EXCEPT !.lastRide = 0]]

\* assignRide without "sched.lastRide = ride"
assignRideKeepingLast(scheds, driverId, ride, baseCost, opts) ==
  LET sched   == scheds[driverId]
      penalty == penaltyFor(opts, Len(sched.rides))
  IN  [scheds EXCEPT ![driverId] =
         [rides       |-> Append(sched.rides, ride._id),
          baseCost    |-> JsAdd(sched.baseCost, baseCost),
          penaltyCost |-> JsAdd(sched.penaltyCost, penalty),
          lastRide    |-> sched.lastRide]]

\* assignRide: the schedules after the commit
assignRide(scheds, driverId, ride, baseCost, opts) ==
  LET sched   == scheds[driverId]
      penalty == penaltyFor(opts, Len(sched.rides))
  IN  [scheds EXCEPT ![driverId] =
         [rides       |-> Append(sched.rides, ride._id),
          baseCost    |-> JsAdd(sched.baseCost, baseCost),
          penaltyCost |-> JsAdd(sched.penaltyCost, penalty),
          lastRide    |-> ride._id]]

\* the loop of buildAssignmentsAndCost without its "continue": every driver
\* gets an entry
RECURSIVE assignmentsOfAllUpTo(_, _)
assignmentsOfAllUpTo(scheds, n) ==
  IF n = 0 THEN <<>>
  ELSE assignmentsOfAllUpTo(scheds, n - 1) \o
       <<[driverId |-> n, rideIds |-> scheds[n].rides]>>

\* buildAssignmentsAndCost: drivers without rides are left out; the three
\* totals are rounded one by one
RECURSIVE assignmentsUpTo(_, _)
assignmentsUpTo(scheds, n) ==
  IF n = 0 THEN <<>>
  ELSE assignmentsUpTo(scheds, n - 1) \o
       (IF Len(scheds[n].rides) = 0 THEN <<>>
        ELSE <<[driverId |-> n, rideIds |-> scheds[n].rides]>>)

RECURSIVE sumOver(_, _, _)
sumOver(scheds, field, n) ==
  IF n = 0 THEN 0
  ELSE IF Len(scheds[n].rides) = 0 THEN sumOver(scheds, field, n - 1)
  ELSE JsAdd(sumOver(scheds, field, n - 1), scheds[n][field])

\* computeFairnessStats. avg and stdDev are Number(x.toFixed(2)): they are
\* held in hundredths. Without any driver Math.min() is Infinity, Math.max()
\* is -Infinity and 0 / 0 is NaN.
StatScale == 100

RECURSIVE SumOfCounts(_, _)
SumOfCounts(counts, n) ==
  IF n = 0 THEN 0 ELSE SumOfCounts(counts, n - 1) + counts[n]

\* Math.round(StatScale * Math.sqrt(v) / n) for integers v >= 0 and n > 0
RoundedRoot(v, n, most) ==
  CHOOSE k \in 0..most :
    /\ k = 0 \/ (2 * k - 1) * (2 * k - 1) * n * n <= 4 * StatScale * StatScale * v
    /\ (2 * k + 1) * (2 * k + 1) * n * n > 4 * StatScale * StatScale * v

statsOfCounts(counts) ==
  LET n       == Len(counts)
      total   == SumOfCounts(counts, n)
      squares == SumOfCounts([i \in 1..n |-> counts[i] * counts[i]], n)
      largest == IF n = 0 THEN 0 - Infinity
                 ELSE CHOOSE c \in {counts[i] : i \in 1..n} :
                        \A i \in 1..n : counts[i] <= c
      least   == IF n = 0 THEN Infinity
                 ELSE CHOOSE c \in {counts[i] : i \in 1..n} :
                        \A i \in 1..n : counts[i] >= c
  IN  [min    |-> least,
       max    |-> largest,
       avg    |-> IF n = 0 THEN NaN ELSE RoundDiv(StatScale * total, n),
       stdDev |-> IF n = 0 THEN NaN
                  ELSE RoundedRoot(n * squares - total * total, n,
                                   StatScale * largest),
       countsPerDriver |-> [d \in 1..n |-> [driverId |-> d, count |-> counts[d]]]]

\* the statistics over the drivers that hold a ride only
computeFairnessStatsOfBusy(scheds) ==
  statsOfCounts(SelectSeq([d \in 1..Cardinality(DOMAIN scheds) |-> Len(scheds[d].rides)],
                          LAMBDA c : c > 0))

computeFairnessStats(scheds) ==
  statsOfCounts([d \in 1..Cardinality(DOMAIN scheds) |-> Len(scheds[d].rides)])

buildAssignmentsAndCost(scheds) ==
  LET n             == Cardinality(DOMAIN scheds)
      realTotalCost == sumOver(scheds, "baseCost", n)
      totalPenalty  == sumOver(scheds, "penaltyCost", n)
      totalCost     == JsAdd(realTotalCost, totalPenalty)
  IN  [assignments   |-> assignmentsUpTo(scheds, n),
       realTotalCost |-> RoundDiv(realTotalCost, CostScale),
       totalPenalty  |-> RoundDiv(totalPenalty, CostScale),
       totalCost     |-> RoundDiv(totalCost, CostScale),
       fairness      |-> computeFairnessStats(scheds)]

\* ------------------------------------------- the draft without the penalty
\* optimizer.js, first draft (lines 1-147): the scheduler before the
\* fairness extension. Its schedules have no penaltyCost. Its
\* canDriverPerformRide and calculateRideCost are those of the second draft.
initializeSchedulesBase(ds) ==
  [d \in 1..Len(ds) |-> [rides |-> <<>>, baseCost |-> 0, lastRide |-> 0]]

\* findBestDriverForRide: const adjustedCost = baseCost;
\* if (adjustedCost < bestAdjustedCost) { best... = ... }
updateBestBase(bestSoFar, driverId, baseCost) ==
  IF JsLt(baseCost, bestSoFar.bestAdjustedCost)
  THEN [bestDriverId |-> driverId, bestAdjustedCost |-> baseCost,
        bestBaseCost |-> baseCost]
  ELSE bestSoFar

\* findBestDriverForRide over the first n drivers, given for each driver what
\* canDriverPerformRide ("true" or "false") and calculateRideCost returned
RECURSIVE findBestDriverForRideBase(_, _, _)
findBestDriverForRideBase(noBest, evaluations, n) ==
  IF n = 0 THEN noBest
  ELSE LET before == findBestDriverForRideBase(noBest, evaluations, n - 1)
       IN  IF evaluations[n].canPerform # "true" THEN before
           ELSE updateBestBase(before, n, evaluations[n].baseCost)

\* assignRide: push, baseCost +=, lastRide
assignRideBase(scheds, driverId, ride, baseCost) ==
  [scheds EXCEPT ![driverId] =
     [rides    |-> Append(scheds[driverId].rides, ride._id),
      baseCost |-> JsAdd(scheds[driverId].baseCost, baseCost),
      lastRide |-> ride._id]]

\* ---------------------------------------------------------------- backend
\* The backend.  The nominal road between two places is the straight one,
\* driven at 1 km per minute.  A backend that is down fails every request;
\* a backend that is silent leaves every request unanswered.
\* A backend that is up answers with the nominal route, except that it may
\* glitch once in a run: one request gets another reply, which is a failure,
\* a reply without routes, a route without duration and distance, or a
\* slower, longer route.
NoRequest == [kind |-> "none"]

NominalReply(fromCoords, toCoords) ==
  LET km == getAirDistanceKm(fromCoords, toCoords)
  IN  Route(km * SecondsPerMinute, km * MetersPerKm)

OddReplies(fromCoords, toCoords) ==
  LET km == getAirDistanceKm(fromCoords, toCoords)
  IN  { ErrorReply,
        NoRoutesReply,
        Route(Undefined, Undefined),
        Route(km * SecondsPerMinute + 90, km * MetersPerKm + 500) }

\* the request that is never settled: no reply and no failure
SilentReply == [kind |-> "silent"]

Replies(requested, fromCoords, toCoords, up, mayGlitch) ==
  IF ~requested THEN {NoRequest}
  ELSE IF backendSilent THEN {SilentReply}
  ELSE IF ~up THEN {ErrorReply}
  ELSE {NominalReply(fromCoords, toCoords)}
       \cup (IF mayGlitch THEN OddReplies(fromCoords, toCoords) ELSE {})

IsOdd(fromCoords, toCoords, reply) ==
  reply \notin {NoRequest, NominalReply(fromCoords, toCoords)}

vars == <<drivers, rides, config, options, backendUp, backendSilent, pc, error,
          schedules, sortedRides, rideIdx, driverIdx, best, result, evals, lookups,
          commits, infeasible, glitched, firstResult, call>>

inputs == <<drivers, rides, config, options, backendUp, backendSilent>>

\* what a run of the scheduler leaves alone
aside == <<firstResult, call>>

\* findBestDriverForRide starting from the first driver instead of null
NoBestFirstDriver == [bestDriverId |-> 1, bestAdjustedCost |-> Infinity, bestBaseCost |-> 0]

NoBest == [bestDriverId |-> NoDriver, bestAdjustedCost |-> Infinity, bestBaseCost |-> 0]
NoResult == [assignments |-> <<>>, realTotalCost |-> 0, totalPenalty |-> 0,
             totalCost |-> 0, fairness |-> Undefined]
NoEval == [canPerform |-> "none", lastRide |-> 0, travelTime |-> Undefined, emptyTime |-> Undefined,
           baseCost |-> Undefined, adjustedCost |-> Undefined, lookups |-> 0]
NoEvals == [d \in 1..NumDrivers |-> NoEval]

\* no earlier run, and no call of the time codec on its own
NoFirstResult == [returned |-> FALSE]
NoCall == [step |-> "none"]

\* the locals of a run that is about to start
RunStart ==
  /\ pc = "start"
  /\ error = "none"
  /\ schedules = << >>
  /\ sortedRides = << >>
  /\ rideIdx = 0
  /\ driverIdx = 0
  /\ best = NoBest
  /\ result = NoResult
  /\ evals = NoEvals
  /\ lookups = << >>
  /\ commits = << >>
  /\ infeasible = {}

Init ==
  /\ drivers \in DriverLists
  /\ rides \in RideLists
  /\ config \in [useAirDistanceFilter : BOOLEAN,
                 maxAirDistanceKm : {DefaultMaxAirDistanceKm}]
  /\ options \in [fairnessMode : BOOLEAN,
                  fairnessWeight : {ExampleFairnessWeight * WeightScale}]
  /\ backendUp \in BOOLEAN
  /\ backendSilent = FALSE
  /\ RunStart
  /\ glitched = FALSE
  /\ firstResult = NoFirstResult
  /\ call = NoCall

\* ---------------------------------------------------------------- actions
Lookup(fn, fromCoords, toCoords, reply, value) ==
  [fn |-> fn, from |-> fromCoords, to |-> toCoords, reply |-> reply, result |-> value]

\* the odd replies among the replies to some requests, given as
\* <<fromCoords, toCoords, reply>>; a backend that is down has none
CountOdd(requests) ==
  IF ~backendUp \/ backendSilent THEN 0
  ELSE Cardinality({i \in 1..Len(requests) :
                      IsOdd(requests[i][1], requests[i][2], requests[i][3])})

currentRide == sortedRides[rideIdx]
currentDriver == drivers[driverIdx]
rideById(id) == IF id = 0 THEN NoRide ELSE rides[id]
lastRideOf(driverId) == rideById(schedules[driverId].lastRide)

\* the loop of findBestDriverForRide left after its first driver
afterDriverLeaves == "decide"

\* after the evaluation of one driver: the next driver, or the decision
afterDriver == IF driverIdx < Len(drivers) THEN "canPerform" ELSE "decide"

\* assignOptimizedRides up to its loop: schedules and sorted rides
Start ==
  /\ pc = "start"
  /\ LET sorted == sortRidesByStartTime(rides)
     IN  /\ schedules' = initializeSchedules(drivers)
         /\ sortedRides' = sorted.value
         /\ pc' = IF sorted.threw # "none" THEN "failed" ELSE "loop"
         /\ error' = sorted.threw
         /\ rideIdx' = 1
  /\ lookups' = << >>
  /\ UNCHANGED <<inputs, driverIdx, best, result, evals, commits, infeasible, glitched>>
  /\ UNCHANGED aside

\* findBestDriverForRide starting with every driver taken as coming from
\* its home: it clears lastRide in the schedules
BeginRideFromHome ==
  /\ pc = "loop"
  /\ rideIdx <= Len(sortedRides)
  /\ schedules' = [d \in DOMAIN schedules |-> [schedules[d] EXCEPT !.lastRide = 0]]
  /\ best' = NoBest
  /\ evals' = NoEvals
  /\ driverIdx' = 1
  /\ pc' = "canPerform"
  /\ lookups' = << >>
  /\ UNCHANGED <<inputs, error, sortedRides, rideIdx, result, commits,
                 infeasible, glitched>>
  /\ UNCHANGED aside

\* the loop takes the next ride: findBestDriverForRide starts
BeginRide ==
  /\ pc = "loop"
  /\ rideIdx <= Len(sortedRides)
  /\ best' = NoBest
  /\ evals' = NoEvals
  /\ driverIdx' = 1
  /\ pc' = "canPerform"
  /\ lookups' = << >>
  /\ UNCHANGED <<inputs, error, schedules, sortedRides, rideIdx, result, commits,
                 infeasible, glitched>>
  /\ UNCHANGED aside

\* one call of canDriverPerformRide from the loop of findBestDriverForRide
CanPerform ==
  /\ pc = "canPerform"
  /\ LET driver     == currentDriver
         ride       == currentRide
         prev       == lastRideOf(driver.driverId)
         fromCoords == emptyFrom(driver, prev)
         toCoords   == ride.startPoint_coords
         dry        == canDriverPerformRide(driver, ride, prev, config,
                                            NominalReply(fromCoords, toCoords))
         requested  == dry.lookups = 1 /\ travelTimeRequests(fromCoords, toCoords, config)
     IN  \E reply \in Replies(requested, fromCoords, toCoords, backendUp, ~glitched) :
           IF reply = SilentReply
           THEN \* await axios.get(url) is never resumed
                /\ pc' = "waiting"
                /\ lookups' = << >>
                /\ UNCHANGED <<glitched, evals, error, driverIdx>>
           ELSE
           LET res == canDriverPerformRide(driver, ride, prev, config, reply)
           IN  /\ glitched' = (glitched \/ CountOdd(<<<<fromCoords, toCoords, reply>>>>) > 0)
               /\ lookups' = IF res.lookups = 0 THEN << >>
                             ELSE <<Lookup("time", fromCoords, toCoords, reply,
                                           res.travelTime)>>
               /\ evals' = [evals EXCEPT ![driverIdx] =
                              [NoEval EXCEPT
                                 !.canPerform = IF res.threw # "none" THEN "threw"
                                                ELSE IF res.value THEN "true" ELSE "false",
                                 !.lastRide = prev._id,
                                 !.travelTime = res.travelTime,
                                 !.lookups = res.lookups]]
               /\ pc' = IF res.threw # "none" THEN "failed"
                        ELSE IF skipDriver(res.value) THEN afterDriver ELSE "cost"
               /\ error' = res.threw
               /\ driverIdx' = IF res.threw = "none" /\ skipDriver(res.value)
                                  /\ driverIdx < Len(drivers)
                               THEN driverIdx + 1 ELSE driverIdx
  /\ UNCHANGED <<inputs, schedules, sortedRides, rideIdx, best, result, commits,
                 infeasible>>
  /\ UNCHANGED aside

\* calculateRideCost for a driver that can perform the ride, and the
\* comparison with the best so far
Cost ==
  /\ pc = "cost"
  /\ LET driver     == currentDriver
         ride       == currentRide
         prev       == lastRideOf(driver.driverId)
         fromCoords == emptyFrom(driver, prev)
         toCoords   == ride.startPoint_coords
         endCoords  == ride.endPoint_coords
         mayGlitch  == ~glitched
         parses     == /\ minutesOf(ride.endTime) # Thrown
                       /\ minutesOf(ride.startTime) # Thrown
         requests(r1, r2, r3) == <<<<fromCoords, toCoords, r1>>,
                                   <<fromCoords, toCoords, r2>>,
                                   <<toCoords, endCoords, r3>>>>
     IN  \E reply1 \in Replies(travelTimeRequests(fromCoords, toCoords, config),
                               fromCoords, toCoords, backendUp, mayGlitch),
            reply2 \in Replies(TRUE, fromCoords, toCoords, backendUp, mayGlitch),
            reply3 \in Replies(parses, toCoords, endCoords, backendUp, mayGlitch) :
           IF SilentReply \in {reply1, reply2, reply3}
           THEN \* await axios.get(url) is never resumed
                /\ pc' = "waiting"
                /\ lookups' = << >>
                /\ UNCHANGED <<glitched, evals, best, error, driverIdx>>
           ELSE
           LET res      == calculateRideCost(driver, ride, prev, config,
                                             reply1, reply2, reply3)
               penalty  == penaltyFor(options, Len(schedules[driver.driverId].rides))
               adjusted == JsAdd(res.baseCost, penalty)
           IN  /\ CountOdd(requests(reply1, reply2, reply3)) <= 1
               /\ glitched' = (glitched \/ CountOdd(requests(reply1, reply2, reply3)) > 0)
               /\ lookups' =
                    <<Lookup("time", fromCoords, toCoords, reply1, res.emptyTime),
                      Lookup("distance", fromCoords, toCoords, reply2,
                             getTravelDistanceInKm(reply2))>>
                    \o (IF res.lookups < 3 THEN << >>
                        ELSE <<Lookup("distance", toCoords, endCoords, reply3,
                                      getTravelDistanceInKm(reply3))>>)
               /\ evals' = [evals EXCEPT ![driverIdx] =
                              [@ EXCEPT !.emptyTime = res.emptyTime,
                                        !.baseCost = res.baseCost,
                                        !.adjustedCost = IF res.threw # "none"
                                                         THEN Undefined
                                                         ELSE adjusted,
                                        !.lookups = @ + res.lookups]]
               /\ best' = IF res.threw # "none" THEN best
                          ELSE updateBest(best, driver.driverId, res.baseCost, adjusted)
               /\ pc' = IF res.threw # "none" THEN "failed" ELSE afterDriver
               /\ error' = res.threw
               /\ driverIdx' = IF res.threw = "none" /\ driverIdx < Len(drivers)
                               THEN driverIdx + 1 ELSE driverIdx
  /\ UNCHANGED <<inputs, schedules, sortedRides, rideIdx, result, commits, infeasible>>
  /\ UNCHANGED aside

\* back in assignOptimizedRides: the commit, if a driver was found
Decide ==
  /\ pc = "decide"
  /\ IF best.bestDriverId # NoDriver
     THEN /\ schedules' = assignRide(schedules, best.bestDriverId, currentRide,
                                     best.bestBaseCost, options)
          /\ commits' = Append(commits,
                          [driverId   |-> best.bestDriverId,
                           rideId     |-> currentRide._id,
                           lastRide   |-> schedules[best.bestDriverId].lastRide,
                           evalLastRide |-> evals[best.bestDriverId].lastRide,
                           canPerform |-> evals[best.bestDriverId].canPerform,
                           travelTime |-> evals[best.bestDriverId].travelTime,
                           emptyTime  |-> evals[best.bestDriverId].emptyTime,
                           baseCost   |-> best.bestBaseCost])
     ELSE UNCHANGED <<schedules, commits>>
  /\ infeasible' = IF \A d \in 1..Len(drivers) : evals[d].canPerform = "false"
                   THEN infeasible \cup {currentRide._id} ELSE infeasible
  /\ rideIdx' = rideIdx + 1
  /\ pc' = "loop"
  /\ lookups' = << >>
  /\ UNCHANGED <<inputs, error, sortedRides, driverIdx, best, result, evals, glitched>>
  /\ UNCHANGED aside

\* after the last ride: the result
Build ==
  /\ pc = "loop"
  /\ rideIdx > Len(sortedRides)
  /\ result' = buildAssignmentsAndCost(schedules)
  /\ pc' = "done"
  /\ lookups' = << >>
  /\ UNCHANGED <<inputs, error, schedules, sortedRides, rideIdx, driverIdx, best,
                 evals, commits, infeasible, glitched>>
  /\ UNCHANGED aside

Next == Start \/ BeginRide \/ CanPerform \/ Cost \/ Decide \/ Build

Spec == Init /\ [][Next]_vars

\* --------------------------------------------------- runs with the filter on
\* Runs with the air-distance filter enabled, on rides that lead a driver
\* from its home to a place near the next ride.
InitFilter ==
  /\ drivers \in DriverLists
  /\ rides \in RideListsOver(DetourRideProfiles)
  /\ config = [useAirDistanceFilter |-> TRUE, maxAirDistanceKm |-> DefaultMaxAirDistanceKm]
  /\ options \in [fairnessMode : BOOLEAN,
                  fairnessWeight : {ExampleFairnessWeight * WeightScale}]
  /\ backendUp = TRUE
  /\ backendSilent = FALSE
  /\ RunStart
  /\ glitched = FALSE
  /\ firstResult = NoFirstResult
  /\ call = NoCall

SpecFilter == InitFilter /\ [][Next]_vars

\* ------------------------------------------- runs with options of the caller
\* Runs whose caller supplies filter settings, or a travel-time function
\* that answers 0 minutes for every pair; the backend answers every request
\* with its nominal route.
SuppliedOptions ==
  LET base == [fairnessMode |-> FALSE,
               fairnessWeight |-> ExampleFairnessWeight * WeightScale]
      with(extra) == [f \in DOMAIN base \cup DOMAIN extra |->
                        IF f \in DOMAIN extra THEN extra[f] ELSE base[f]]
  IN  { with([useAirDistanceFilter |-> f, maxAirDistanceKm |-> m]) :
          f \in BOOLEAN,
          m \in {DefaultMaxAirDistanceKm, DefaultMaxAirDistanceKm + 1} }
      \cup { with([getTravelTimeFn |-> [minutes |-> 0]]) }

InitOptions ==
  /\ drivers \in DriverLists
  /\ rides \in RideLists
  /\ config \in [useAirDistanceFilter : BOOLEAN,
                 maxAirDistanceKm : {DefaultMaxAirDistanceKm}]
  /\ options \in SuppliedOptions
  /\ backendUp = TRUE
  /\ backendSilent = FALSE
  /\ RunStart
  /\ glitched = TRUE
  /\ firstResult = NoFirstResult
  /\ call = NoCall

SpecOptions == InitOptions /\ [][Next]_vars

\* ------------------------------------------ runs against a silent backend
\* Runs in which the backend may accept every request and never settle it
\* (axios.get is called without a timeout); otherwise it answers nominally.
InitSilent ==
  /\ drivers \in DriverLists
  /\ rides \in RideLists
  /\ config \in [useAirDistanceFilter : BOOLEAN,
                 maxAirDistanceKm : {DefaultMaxAirDistanceKm}]
  /\ options = [fairnessMode |-> FALSE,
                fairnessWeight |-> ExampleFairnessWeight * WeightScale]
  /\ backendUp = TRUE
  /\ backendSilent \in BOOLEAN
  /\ RunStart
  /\ glitched = TRUE
  /\ firstResult = NoFirstResult
  /\ call = NoCall

SpecSilent == InitSilent /\ [][Next]_vars

\* ----------------------------------------------------- calls of the codec
\* One call of the time codec: a total of minutes is formatted and the text
\* parsed back, or a text is parsed. The texts are up to MaxFields fields
\* joined by ":".
MaxFields == 3

Fields ==
  { <<>>, <<"0">>, <<"7">>, <<"0", "0">>, <<"1", "2">>, <<"2", "3">>,
    <<"2", "4">>, <<"3", "0">>, <<"4", "5">>, <<"5", "9">>, <<"6", "0">>,
    <<"a">>, <<"1", "a">> }

RECURSIVE Join(_, _)
Join(fields, sep) ==
  IF Len(fields) = 1 THEN fields[1]
  ELSE fields[1] \o <<sep>> \o Join(Tail(fields), sep)

Texts ==
  UNION { { Join(fs, ":") : fs \in [1..n -> Fields] } : n \in 1..MaxFields }

InitCodec ==
  /\ drivers = << >>
  /\ rides = << >>
  /\ config = [useAirDistanceFilter |-> FALSE,
               maxAirDistanceKm |-> DefaultMaxAirDistanceKm]
  /\ options = [fairnessMode |-> FALSE,
                fairnessWeight |-> ExampleFairnessWeight * WeightScale]
  /\ backendUp = TRUE
  /\ backendSilent = FALSE
  /\ RunStart
  /\ glitched = TRUE
  /\ firstResult = NoFirstResult
  /\ call \in { [step |-> "format", minute |-> m, text |-> Undefined,
                 value |-> Undefined] : m \in 0..(MinutesPerDay - 1) }
              \cup
              { [step |-> "parse", minute |-> Undefined, text |-> t,
                 value |-> Undefined] : t \in Texts }

run == <<drivers, rides, config, options, backendUp, backendSilent, pc, error,
         schedules, sortedRides, rideIdx, driverIdx, best, result, evals,
         lookups, commits, infeasible, glitched, firstResult>>

\* randomTimeWindow formats the total of minutes
FormatTime ==
  /\ call.step = "format"
  /\ call' = [call EXCEPT !.step = "parse", !.text = formatTime(call.minute)]
  /\ UNCHANGED run

\* parseTimeToMinutes(text) returns the minutes or throws
ParseTime ==
  /\ call.step = "parse"
  /\ call' = [call EXCEPT !.step = "returned",
                          !.value = parseTimeToMinutes(call.text)]
  /\ UNCHANGED run

NextCodec == FormatTime \/ ParseTime

SpecCodec == InitCodec /\ [][NextCodec]_vars

\* -------------------------------------------- runs on malformed time texts
\* Runs whose rides may carry a start or an end time that parseTimeToMinutes
\* rejects; the backend answers every request with its nominal route.
InitTimes ==
  /\ drivers \in DriverLists
  /\ rides \in RideListsOver(MalformedRideProfiles)
  /\ config \in [useAirDistanceFilter : BOOLEAN,
                 maxAirDistanceKm : {DefaultMaxAirDistanceKm}]
  /\ options = [fairnessMode |-> FALSE,
                fairnessWeight |-> ExampleFairnessWeight * WeightScale]
  /\ backendUp = TRUE
  /\ backendSilent = FALSE
  /\ RunStart
  /\ glitched = TRUE
  /\ firstResult = NoFirstResult
  /\ call = NoCall

SpecTimes == InitTimes /\ [][Next]_vars

\* ------------------------------------------- runs with the penalty enabled
\* Runs with the fairness penalty enabled, under the weight of the README
\* example or a weight of half a unit (FAIRNESS_WEIGHT is read by
\* parseFloat); the backend answers every request with its nominal route.
InitWeights ==
  /\ drivers \in DriverLists
  /\ rides \in RideLists
  /\ config \in [useAirDistanceFilter : BOOLEAN,
                 maxAirDistanceKm : {DefaultMaxAirDistanceKm}]
  /\ options \in [fairnessMode : {TRUE},
                  fairnessWeight : {WeightScale \div 2,
                                    ExampleFairnessWeight * WeightScale}]
  /\ backendUp = TRUE
  /\ backendSilent = FALSE
  /\ RunStart
  /\ glitched = TRUE
  /\ firstResult = NoFirstResult
  /\ call = NoCall

SpecWeights == InitWeights /\ [][Next]_vars

\* ------------------------------------------------- two runs, one after the other
\* assignOptimizedRides is called a second time on the same drivers, rides
\* and options once the first call has returned or thrown. The provider
\* answers a pair of places the same way in both runs: the backend is up
\* and nominal, or down. The first outcome is kept aside; the locals of
\* the second call are assigned by the statements of that call.
InitTwice ==
  /\ drivers \in DriverLists
  /\ rides \in RideLists
  /\ config \in [useAirDistanceFilter : BOOLEAN,
                 maxAirDistanceKm : {DefaultMaxAirDistanceKm}]
  /\ options \in [fairnessMode : BOOLEAN,
                  fairnessWeight : {ExampleFairnessWeight * WeightScale}]
  /\ backendUp \in BOOLEAN
  /\ backendSilent = FALSE
  /\ RunStart
  /\ glitched = TRUE
  /\ firstResult = NoFirstResult
  /\ call = NoCall

Restart ==
  /\ pc \in {"done", "failed"}
  /\ ~firstResult.returned
  /\ firstResult' = [returned |-> TRUE, outcome |-> pc, error |-> error,
                     result |-> result]
  /\ pc' = "start"
  /\ error' = "none"
  /\ result' = NoResult
  /\ commits' = << >>
  /\ infeasible' = {}
  /\ UNCHANGED <<inputs, schedules, sortedRides, rideIdx, driverIdx, best, evals,
                 lookups, glitched, call>>

NextTwice == Next \/ Restart

SpecTwice == InitTwice /\ [][NextTwice]_vars

\* --------------------------------------------------- calls of computePenalty
\* computePenalty is called on two counts c1 < c2 up to MaxCount under one
\* weight. A weight is any number: options.fairnessWeight is passed on as it
\* is, and the configured one is parseFloat(FAIRNESS_WEIGHT) || 1, which
\* can be negative. The weights are -1, 0, 0.5, 1 and the one of the README.
MaxCount == 6

Weights ==
  {0 - WeightScale, 0, WeightScale \div 2, WeightScale,
   ExampleFairnessWeight * WeightScale}

InitPenalty ==
  /\ drivers = << >>
  /\ rides = << >>
  /\ config = [useAirDistanceFilter |-> FALSE,
               maxAirDistanceKm |-> DefaultMaxAirDistanceKm]
  /\ options = [fairnessMode |-> TRUE,
                fairnessWeight |-> ExampleFairnessWeight * WeightScale]
  /\ backendUp = TRUE
  /\ backendSilent = FALSE
  /\ RunStart
  /\ glitched = TRUE
  /\ firstResult = NoFirstResult
  /\ call \in { [step |-> "penalty", c1 |-> a, c2 |-> b, weight |-> w,
                 v1 |-> Undefined, v2 |-> Undefined] :
                a \in 0..MaxCount, b \in 0..MaxCount, w \in Weights }

ComputePenalty ==
  /\ call.step = "penalty"
  /\ call' = [call EXCEPT !.step = "penalized",
                          !.v1 = computePenalty(call.c1, call.weight),
                          !.v2 = computePenalty(call.c2, call.weight)]
  /\ UNCHANGED run

NextPenalty == ComputePenalty

SpecPenalty == InitPenalty /\ [][NextPenalty]_vars

\* --------------------------------------------- calls of computeFairnessStats
\* computeFairnessStats is called on the schedules of up to MaxStatDrivers
\* drivers (of none, too), each holding up to MaxCount rides.
MaxStatDrivers == 3

StatSchedules ==
  UNION { [1..n -> { [rides |-> [i \in 1..c |-> i]] : c \in 0..MaxCount }] :
          n \in 0..MaxStatDrivers }

InitStats ==
  /\ drivers = << >>
  /\ rides = << >>
  /\ config = [useAirDistanceFilter |-> FALSE,
               maxAirDistanceKm |-> DefaultMaxAirDistanceKm]
  /\ options = [fairnessMode |-> TRUE,
                fairnessWeight |-> ExampleFairnessWeight * WeightScale]
  /\ backendUp = TRUE
  /\ backendSilent = FALSE
  /\ RunStart
  /\ glitched = TRUE
  /\ firstResult = NoFirstResult
  /\ call \in { [step |-> "stats", schedules |-> sc, fairness |-> Undefined] :
                sc \in StatSchedules }

FairnessStats ==
  /\ call.step = "stats"
  /\ call' = [call EXCEPT !.step = "counted",
                          !.fairness = computeFairnessStats(call.schedules)]
  /\ UNCHANGED run

NextStats == FairnessStats

SpecStats == InitStats /\ [][NextStats]_vars

\* ----------------------------------------------------- calls of rawTravelTime
\* rawTravelTime is called on a pair for which the backend answers with a
\* route of 0 to MaxSeconds whole seconds.
MaxSeconds == 200

InitDuration ==
  /\ drivers = << >>
  /\ rides = << >>
  /\ config = [useAirDistanceFilter |-> FALSE,
               maxAirDistanceKm |-> DefaultMaxAirDistanceKm]
  /\ options = [fairnessMode |-> FALSE,
                fairnessWeight |-> ExampleFairnessWeight * WeightScale]
  /\ backendUp = TRUE
  /\ backendSilent = FALSE
  /\ RunStart
  /\ glitched = TRUE
  /\ firstResult = NoFirstResult
  /\ call \in { [step |-> "duration", secs |-> sec, value |-> Undefined] :
                sec \in 0..MaxSeconds }

RawTravelTime ==
  /\ call.step = "duration"
  /\ call' = [call EXCEPT !.step = "timed",
                          !.value = rawTravelTime(Route(call.secs, 0))]
  /\ UNCHANGED run

NextDuration == RawTravelTime

SpecDuration == InitDuration /\ [][NextDuration]_vars

\* ============================================================== properties
InSeq(x, seq) == \E i \in DOMAIN seq : seq[i] = x

\* a >= b in JavaScript: false as soon as one side is NaN
JsGe(a, b) ==
  LET x == ToNumber(a)
      y == ToNumber(b)
  IN  IF x = NaN \/ y = NaN THEN FALSE ELSE x >= y

\* a === b on numbers: NaN equals nothing
JsEq(a, b) == ToNumber(a) # NaN /\ ToNumber(a) = ToNumber(b)

\* the places where a ride id stands in some lists
Placements(lists, id) ==
  UNION { { <<d, i>> : i \in {j \in DOMAIN lists[d] : lists[d][j] = id} } :
          d \in DOMAIN lists }

ScheduleLists == [d \in DOMAIN schedules |-> schedules[d].rides]
ResultLists == [k \in DOMAIN result.assignments |-> result.assignments[k].rideIds]

\* the evaluation of a ride is over and its decision taken
JustDecided == pc \in {"loop", "done"} /\ rideIdx > 1
ProcessedRide == sortedRides[rideIdx - 1]
LastCommitted ==
  /\ JustDecided
  /\ commits # << >>
  /\ commits[Len(commits)].rideId = ProcessedRide._id
Feasible(d) == evals[d].canPerform = "true"

\* --------------------------------------------------------------------- C1
\* C1: each ride id stands in the ride list of at most one driver, and at
\* most once in that list, in the schedules and in the returned assignments.
C1_AtMostOneAssignment ==
  \A id \in 1..Len(rides) :
    /\ Cardinality(Placements(ScheduleLists, id)) <= 1
    /\ Cardinality(Placements(ResultLists, id)) <= 1

\* a run returned a result in which two drivers each hold a ride
C1_Witness ==
  /\ pc = "done"
  /\ Len(result.assignments) = 2
  /\ \A id \in 1..Len(rides) : Cardinality(Placements(ResultLists, id)) = 1

\* --------------------------------------------------------------------- C2
\* C2: every commit gives the ride to a driver for which canDriverPerformRide
\* returned true, on the lastRide the schedule holds right before the commit.
C2_CommitsAreFeasible ==
  \A k \in DOMAIN commits :
    /\ commits[k].canPerform = "true"
    /\ commits[k].evalLastRide = commits[k].lastRide

\* a driver that already holds a ride was committed another one
C2_Witness ==
  \E k \in DOMAIN commits :
    /\ commits[k].lastRide # 0
    /\ commits[k].canPerform = "true"

\* --------------------------------------------------------------------- C3
\* C3: for each driver and each two consecutive rides (p, r) of its
\* schedule, start(r) >= end(p) + the travel time from p's end to r's start
\* (the travel time the lookup of r's feasibility check returned).
CommitOf(id) == CHOOSE k \in DOMAIN commits : commits[k].rideId = id

C3_ArrivalBeforeStart ==
  \A d \in DOMAIN schedules :
    \A i \in DOMAIN schedules[d].rides :
      i > 1 =>
        LET r == rides[schedules[d].rides[i]]
            p == rides[schedules[d].rides[i - 1]]
        IN  JsGe(parseTimeToMinutes(r.startTime),
                 JsAdd(parseTimeToMinutes(p.endTime), commits[CommitOf(r._id)].travelTime))

\* --------------------------------------------------------------------- C4
\* C4: the driver of a commit is feasible, no feasible driver has a strictly
\* lower adjusted cost, and no feasible driver earlier in the input order
\* has an equal one.
C4_FirstCheapestDriver ==
  LastCommitted =>
    LET c == commits[Len(commits)].driverId
    IN  /\ Feasible(c)
        /\ \A d \in DOMAIN evals :
             Feasible(d) =>
               /\ ~JsLt(evals[d].adjustedCost, evals[c].adjustedCost)
               /\ d < c => ~JsEq(evals[d].adjustedCost, evals[c].adjustedCost)

\* a ride was committed to the first of two feasible drivers of equal
\* adjusted cost
C4_Witness ==
  /\ LastCommitted
  /\ \E d \in DOMAIN evals :
       /\ d > commits[Len(commits)].driverId
       /\ Feasible(d)
       /\ JsEq(evals[d].adjustedCost, evals[commits[Len(commits)].driverId].adjustedCost)

\* --------------------------------------------------------------------- C5
\* C5 as stated: a processed ride for which at least one driver is feasible
\* is committed.
C5_FeasibleIsCommitted ==
  (JustDecided /\ \E d \in DOMAIN evals : Feasible(d)) => LastCommitted

\* C5, amended: a processed ride for which at least one feasible driver has
\* an adjusted cost below Infinity (a number, not NaN) is committed.
C5_PricedIsCommitted ==
  (JustDecided /\ \E d \in DOMAIN evals :
                    Feasible(d) /\ JsLt(evals[d].adjustedCost, Infinity))
    => LastCommitted

\* a ride was committed although one of its feasible drivers had no cost
\* below Infinity
C5_Witness ==
  /\ LastCommitted
  /\ \E d \in DOMAIN evals : Feasible(d) /\ ~JsLt(evals[d].adjustedCost, Infinity)

\* --------------------------------------------------------------------- C6
\* C6: a ride that no driver can perform stands in no schedule and in no
\* returned assignment; the decision for it changes no schedule and raises no
\* error, and the run goes on with the next ride or with the result.
NoDriverFeasible ==
  pc = "decide" /\ \A d \in DOMAIN evals : evals[d].canPerform = "false"

C6_NoFeasibleDriver ==
  /\ [](\A id \in infeasible :
          /\ Placements(ScheduleLists, id) = {}
          /\ Placements(ResultLists, id) = {})
  /\ [][NoDriverFeasible =>
          /\ schedules' = schedules
          /\ error' = "none"
          /\ pc' = "loop"
          /\ rideIdx' = rideIdx + 1]_vars
  /\ []((infeasible # {} /\ pc = "loop") => ENABLED (BeginRide \/ Build))

\* a run returned a result after a ride asked for more seats than any driver
\* has, and a later ride of the run was committed
C6_Witness ==
  /\ pc = "done"
  /\ \E id \in infeasible :
       /\ \A d \in DOMAIN drivers : drivers[d].numberOfSeats < rides[id].numberOfSeats
       /\ \E k \in DOMAIN commits : commits[k].rideId # id
       /\ Placements(ResultLists, id) = {}

\* --------------------------------------------------------------------- C7
\* C7: the rides are processed in ascending start time, rides of equal start
\* time in input order; commits follow that order, and each driver's ride
\* list is that driver's commits in commit order.
InputPos(r) == CHOOSE i \in DOMAIN rides : rides[i] = r
SortedPos(id) == CHOOSE i \in DOMAIN sortedRides : sortedRides[i]._id = id
CommittedTo(d) ==
  LET mine == SelectSeq(commits, LAMBDA c : c.driverId = d)
  IN  [i \in DOMAIN mine |-> mine[i].rideId]

C7_StartTimeOrder ==
  pc \in {"loop", "canPerform", "cost", "decide", "done"} =>
    /\ Len(sortedRides) = Len(rides)
    /\ {sortedRides[i] : i \in DOMAIN sortedRides} = {rides[i] : i \in DOMAIN rides}
    /\ \A i, j \in DOMAIN sortedRides :
         i < j =>
           LET a == parseTimeToMinutes(sortedRides[i].startTime)
               b == parseTimeToMinutes(sortedRides[j].startTime)
           IN  a < b \/ (a = b /\ InputPos(sortedRides[i]) < InputPos(sortedRides[j]))
    /\ \A k \in DOMAIN commits : SortedPos(commits[k].rideId) < rideIdx
    /\ \A k, l \in DOMAIN commits :
         k < l => SortedPos(commits[k].rideId) < SortedPos(commits[l].rideId)
    /\ \A d \in DOMAIN schedules : schedules[d].rides = CommittedTo(d)
    /\ \A k \in DOMAIN result.assignments :
         result.assignments[k].rideIds = CommittedTo(result.assignments[k].driverId)

\* a run returned two committed rides that were given in descending start time
C7_Witness ==
  /\ pc = "done"
  /\ Len(rides) = 2
  /\ parseTimeToMinutes(rides[1].startTime) > parseTimeToMinutes(rides[2].startTime)
  /\ Len(commits) = 2
  /\ commits[1].rideId = 2

\* --------------------------------------------------------------------- C8
\* C8: a lookup whose backend request fails returns Infinity; no run ends
\* with the error of a failed request, and the step in which a request
\* failed leaves the run at its next evaluation or at the decision.
C8_FailuresAbsorbed ==
  /\ \A i \in DOMAIN lookups :
       lookups[i].reply = ErrorReply => lookups[i].result = Infinity
  /\ error # "RequestFailed"
  /\ (\E i \in DOMAIN lookups : lookups[i].reply = ErrorReply)
       => pc \in {"canPerform", "cost", "decide"}

\* a run returned a result although every request to the backend failed
C8_Witness ==
  /\ pc = "done"
  /\ ~backendUp
  /\ ~config.useAirDistanceFilter
  /\ \E d \in DOMAIN evals : evals[d].lookups > 0

\* --------------------------------------------------------------------- C9
\* C9: a lookup that gets a malformed reply (no routes, or a route without
\* the duration or distance it reads) returns Infinity, and a driver whose
\* feasibility lookup got such a reply is not found feasible.
Malformed(l) ==
  \/ l.reply.kind = "noRoutes"
  \/ /\ l.reply.kind = "route"
     /\ l.reply[IF l.fn = "time" THEN "duration" ELSE "distance"] = Undefined

C9_MalformedIsUnreachable ==
  /\ \A i \in DOMAIN lookups : Malformed(lookups[i]) => lookups[i].result = Infinity
  /\ (pc = "cost" /\ lookups # << >>) => ~Malformed(lookups[1])

\* -------------------------------------------------------------------- C10
\* C10: with the filter enabled, a travel-time lookup of a pair whose air
\* distance is above maxAirDistanceKm returns Infinity without a request;
\* any other pair, one exactly at the threshold included, gets a request and
\* the lookup returns what rawTravelTime makes of the reply.
C10_FilterBoundary ==
  config.useAirDistanceFilter =>
    \A i \in DOMAIN lookups :
      lookups[i].fn = "time" =>
        IF getAirDistanceKm(lookups[i].from, lookups[i].to) > config.maxAirDistanceKm
        THEN lookups[i].reply = NoRequest /\ lookups[i].result = Infinity
        ELSE /\ lookups[i].reply # NoRequest
             /\ lookups[i].result = rawTravelTime(lookups[i].reply)

\* a pair exactly at the threshold got a request with the filter enabled
C10_Witness ==
  /\ config.useAirDistanceFilter
  /\ \E i \in DOMAIN lookups :
       /\ lookups[i].fn = "time"
       /\ getAirDistanceKm(lookups[i].from, lookups[i].to) = config.maxAirDistanceKm
       /\ lookups[i].reply.kind = "route"

\* -------------------------------------------------------------------- C11
\* where the driver of a commit stood when the ride was evaluated: at home,
\* or where its last ride ended
originOf(c) ==
  IF c.lastRide = 0 THEN drivers[c.driverId].city_coords
  ELSE rides[c.lastRide].endPoint_coords

\* C11 as stated: with the filter enabled, a driver whose home is farther
\* from a ride's start than the threshold is never committed to that ride.
C11_FarFromHomeNeverServes ==
  config.useAirDistanceFilter =>
    \A k \in DOMAIN commits :
      getAirDistanceKm(drivers[commits[k].driverId].city_coords,
                       rides[commits[k].rideId].startPoint_coords)
        <= config.maxAirDistanceKm

\* C11, amended: with the filter enabled, a driver that stands (at home, or
\* at the end of its last ride) farther from a ride's start than the
\* threshold is never committed to that ride.
C11_FarFromPositionNeverServes ==
  config.useAirDistanceFilter =>
    \A k \in DOMAIN commits :
      getAirDistanceKm(originOf(commits[k]), rides[commits[k].rideId].startPoint_coords)
        <= config.maxAirDistanceKm

\* a driver serves a ride that starts farther from its home than the
\* threshold, coming from a ride that ended within the threshold
C11_Witness ==
  /\ config.useAirDistanceFilter
  /\ \E k \in DOMAIN commits :
       /\ commits[k].lastRide # 0
       /\ getAirDistanceKm(drivers[commits[k].driverId].city_coords,
                           rides[commits[k].rideId].startPoint_coords)
            > config.maxAirDistanceKm

\* -------------------------------------------------------------------- C12
\* C12: what the caller supplies is what the run uses: the travel time of
\* the feasibility check is the one of a supplied getTravelTimeFn, and a
\* travel-time lookup asks the backend exactly when the supplied filter
\* settings (the configured ones where none is supplied) let the pair through.
C12_OptionsTakePrecedence ==
  /\ suppliesTravelFn(options) =>
       \A d \in DOMAIN evals :
         evals[d].travelTime # Undefined =>
           evals[d].travelTime = options.getTravelTimeFn.minutes
  /\ \A i \in DOMAIN lookups :
       lookups[i].fn = "time" =>
         (lookups[i].reply # NoRequest)
           = travelTimeRequests(lookups[i].from, lookups[i].to,
                                requestedFilter(options, config))

\* -------------------------------------------------------------------- C13
\* C13: a lookup is bounded in time: when the backend neither answers nor
\* fails, the lookup still returns, so that a run never rests on a request
\* that is not settled.
C13_NeverSuspended == pc # "waiting"

\* -------------------------------------------------------------------- C14
\* A text the claim takes as a time: exactly two fields around one ":",
\* each a non-empty run of digits, hours in 0..23 and minutes in 0..59
WellFormedTime(text) ==
  LET fields == Split(text, ":")
      numeric(f) == f # << >> /\ \A i \in 1..Len(f) : f[i] \in Digits
  IN  /\ Len(fields) = 2
      /\ numeric(fields[1]) /\ numeric(fields[2])
      /\ DecimalValue(fields[1]) \in 0..(HoursPerDay - 1)
      /\ DecimalValue(fields[2]) \in 0..(MinutesPerHour - 1)

\* C14: parseTimeToMinutes fails for every text that is not a well-formed
\* time ("12:30:45", ":", "24:00" and "12:60" among them) and returns
\* hours * 60 + minutes, within 0..1439, for every text that is one.
C14_RejectsMalformedTexts ==
  call.step = "returned" =>
    IF WellFormedTime(call.text)
    THEN LET fields == Split(call.text, ":")
         IN  /\ call.value = DecimalValue(fields[1]) * MinutesPerHour
                               + DecimalValue(fields[2])
             /\ call.value \in 0..(MinutesPerDay - 1)
    ELSE call.value = Thrown

\* -------------------------------------------------------------------- C15
\* C15: for every m in 0..1439, the zero-padded "HH:mm" text of m parses
\* back to m. The text has two digits on each side of its colon.
C15_FormatParseRoundTrip ==
  /\ (call.step = "returned" /\ call.minute # Undefined) =>
       call.value = call.minute
  /\ (call.step # "format" /\ call.minute # Undefined) =>
       /\ Len(call.text) = 5
       /\ call.text[3] = ":"

C15_Witness ==
  /\ call.step = "returned"
  /\ call.minute = 7 * MinutesPerHour + 5
  /\ call.text = <<"0", "7", ":", "0", "5">>
  /\ call.value = call.minute

\* -------------------------------------------------------------------- C16
\* C16: a run on rides of which one has a malformed startTime or endTime
\* does not return a result: it ends in the error thrown to the caller.
C16_MalformedTimeFailsFast ==
  (\E i \in 1..Len(rides) :
      \/ parseTimeToMinutes(rides[i].startTime) = Thrown
      \/ parseTimeToMinutes(rides[i].endTime) = Thrown)
    => pc # "done"

\* -------------------------------------------------------------------- C17
\* The sum of the incremental base costs of the first n commits that went
\* to the driver
RECURSIVE CommittedBaseCost(_, _)
CommittedBaseCost(driverId, n) ==
  IF n = 0 THEN 0
  ELSE CommittedBaseCost(driverId, n - 1)
         + (IF commits[n].driverId = driverId THEN commits[n].baseCost ELSE 0)

RECURSIVE RunningBaseCost(_)
RunningBaseCost(n) ==
  IF n = 0 THEN 0 ELSE RunningBaseCost(n - 1) + schedules[n].baseCost

RunningTotalsAreSums ==
  \A d \in DOMAIN schedules :
    schedules[d].baseCost = CommittedBaseCost(d, Len(commits))

\* C17 as stated: at the end of a run each driver's running base cost is the
\* sum of the incremental base costs of its commits, and the result's real
\* base cost is the sum of the running base costs of all drivers.
C17_RealCostIsSum ==
  pc = "done" =>
    /\ RunningTotalsAreSums
    /\ result.realTotalCost * CostScale = RunningBaseCost(Len(drivers))

\* C17, amended: at the end of a run each driver's running base cost is the
\* sum of the incremental base costs of its commits, and the result's real
\* base cost is the sum of the running base costs of all drivers rounded to
\* the nearest whole unit, a half going up.
C17_RealCostIsRoundedSum ==
  pc = "done" =>
    /\ RunningTotalsAreSums
    /\ result.realTotalCost = RoundDiv(RunningBaseCost(Len(drivers)), CostScale)

C17_Witness ==
  /\ pc = "done"
  /\ \E d \in DOMAIN schedules :
       /\ Len(schedules[d].rides) = 2
       /\ schedules[d].baseCost % CostScale # 0
  /\ RunningBaseCost(Len(drivers)) % CostScale # 0
  /\ result.realTotalCost * CostScale > RunningBaseCost(Len(drivers))

\* -------------------------------------------------------------------- C18
\* C18: in the result of a run, totalCost is realTotalCost plus totalPenalty.
C18_TotalIsRealPlusPenalty ==
  pc = "done" => result.totalCost = result.realTotalCost + result.totalPenalty

\* -------------------------------------------------------------------- C19
\* The rides committed to the driver, in the order of their commits
RECURSIVE CommittedRides(_, _)
CommittedRides(driverId, n) ==
  IF n = 0 THEN << >>
  ELSE CommittedRides(driverId, n - 1)
         \o (IF commits[n].driverId = driverId THEN <<commits[n].rideId>> ELSE << >>)

\* C19: the assignments of the result hold exactly one entry for each driver
\* with at least one committed ride, with the ids of that driver's rides, and
\* no entry for a driver without rides.
C19_OneEntryPerBusyDriver ==
  pc = "done" =>
    LET entries == result.assignments
    IN  /\ \A d \in 1..Len(drivers) :
             LET mine == {i \in 1..Len(entries) : entries[i].driverId = d}
                 ids  == CommittedRides(d, Len(commits))
             IN  IF ids = << >> THEN mine = {}
                 ELSE /\ Cardinality(mine) = 1
                      /\ \A i \in mine : entries[i].rideIds = ids
        /\ \A i \in 1..Len(entries) : entries[i].driverId \in 1..Len(drivers)

C19_Witness ==
  /\ pc = "done"
  /\ Len(drivers) = 2
  /\ Len(result.assignments) = 1
  /\ \E d \in 1..Len(drivers) : CommittedRides(d, Len(commits)) = << >>
  /\ Len(result.assignments[1].rideIds) = 2

\* -------------------------------------------------------------------- C20
\* C20: the second of two runs on the same drivers, rides and options, with
\* a provider that answers every pair of places as in the first run, ends
\* as the first did: the same result, or the same error.
C20_SecondRunReturnsTheSame ==
  (firstResult.returned /\ pc \in {"done", "failed"}) =>
    /\ firstResult.outcome = pc
    /\ firstResult.error = error
    /\ firstResult.result = result

C20_Witness ==
  /\ firstResult.returned
  /\ pc = "done"
  /\ Len(drivers) = 2
  /\ Len(commits) = 2
  /\ result.realTotalCost > 0
  /\ firstResult.result = result

\* -------------------------------------------------------------------- C21
\* a <= b in JavaScript: false as soon as one side is NaN
JsLe(a, b) ==
  LET x == ToNumber(a)
      y == ToNumber(b)
  IN  IF x = NaN \/ y = NaN THEN FALSE ELSE x <= y

\* the drivers are being evaluated for the current ride
Evaluating == pc \in {"canPerform", "cost", "decide"}

\* the time from which the driver is available: the end of the previous
\* ride its evaluation was given, 0 without a previous ride
availableTime(d) ==
  IF evals[d].lastRide # 0
  THEN parseTimeToMinutes(rides[evals[d].lastRide].endTime)
  ELSE 0

\* C21: canDriverPerformRide returns true exactly when the driver is active,
\* has at least the seats the ride requires, and availableTime + travelTime
\* <= the start of the ride, the zero slack of an equality included.
C21_FeasibleExactlyWhenInTime ==
  Evaluating =>
    \A d \in 1..Len(drivers) :
      evals[d].canPerform \in {"true", "false"} =>
        ((evals[d].canPerform = "true")
           = (/\ drivers[d].status = "active"
              /\ drivers[d].numberOfSeats >= currentRide.numberOfSeats
              /\ evals[d].travelTime # Undefined
              /\ JsLe(JsAdd(availableTime(d), evals[d].travelTime),
                      parseTimeToMinutes(currentRide.startTime))))

\* -------------------------------------------------------------------- C22
\* C22: when the travel-time lookup of the feasibility check returns the
\* unreachable sentinel, canDriverPerformRide returns false, with or without
\* a previous ride; a driver is never committed to a ride for which its
\* lookup returned the sentinel.
C22_SentinelAlwaysRejects ==
  /\ \A d \in DOMAIN evals :
       evals[d].travelTime = Infinity => evals[d].canPerform = "false"
  /\ \A k \in DOMAIN commits : commits[k].travelTime # Infinity

\* a driver that holds a ride got the sentinel for the next one, another
\* driver got it at home, and both were rejected
C22_Witness ==
  /\ Evaluating
  /\ \E d \in DOMAIN evals :
       /\ evals[d].travelTime = Infinity
       /\ evals[d].lastRide # 0
       /\ evals[d].canPerform = "false"
  /\ \E d \in DOMAIN evals :
       /\ evals[d].travelTime = Infinity
       /\ evals[d].lastRide = 0
       /\ evals[d].canPerform = "false"

\* -------------------------------------------------------------------- C23
\* calculateRideCost has just returned for the driver CostedDriver: its three
\* lookups are the last ones made
JustCosted == pc \in {"canPerform", "decide"} /\ Len(lookups) = 3
CostedDriver == IF pc = "decide" THEN Len(drivers) ELSE driverIdx - 1

\* C23: the value calculateRideCost returns is
\* ((emptyTravelMinutes + (ride end - ride start)) / 60) * 30
\*   + driver.fuelCost * (emptyTravelKm + serviceDistanceKm),
\* the empty travel being looked up from the end of lastRide if there is one
\* and from the driver's home otherwise, the service distance from the start
\* to the end of the ride; no penalty is in it.
C23_BaseCostFormula ==
  JustCosted =>
    LET d        == CostedDriver
        ride     == currentRide
        origin   == IF evals[d].lastRide # 0
                    THEN rides[evals[d].lastRide].endPoint_coords
                    ELSE drivers[d].city_coords
        minutes  == JsAdd(lookups[1].result,
                          parseTimeToMinutes(ride.endTime)
                            - parseTimeToMinutes(ride.startTime))
        meters   == JsAdd(lookups[2].result, lookups[3].result)
        timePart == JsMul(minutes, HourlyRate * (CostScale \div MinutesPerHour))
        fuelPart == JsMul(JsMul(drivers[d].fuelCost, meters),
                          CostScale \div MetersPerKm)
    IN  /\ lookups[1].fn = "time" /\ lookups[1].from = origin
        /\ lookups[1].to = ride.startPoint_coords
        /\ lookups[2].fn = "distance" /\ lookups[2].from = origin
        /\ lookups[2].to = ride.startPoint_coords
        /\ lookups[3].fn = "distance" /\ lookups[3].from = ride.startPoint_coords
        /\ lookups[3].to = ride.endPoint_coords
        /\ evals[d].baseCost = JsAdd(timePart, fuelPart)

\* with the penalty enabled, a driver that holds a ride and pays for fuel
\* got a finite cost for the next ride
C23_Witness ==
  /\ JustCosted
  /\ options.fairnessMode
  /\ evals[CostedDriver].lastRide # 0
  /\ drivers[CostedDriver].fuelCost > 0
  /\ IsFinite(evals[CostedDriver].baseCost)
  /\ evals[CostedDriver].adjustedCost > evals[CostedDriver].baseCost

\* -------------------------------------------------------------------- C24
\* C24: a schedule changes only in the commit step, which is taken when
\* every driver has been evaluated for the ride and which commits that ride
\* once; the evaluation of a ride starts only when the decision on the ride
\* before it is taken; no ride is committed twice.
C24_CommitAfterAllEvaluations ==
  /\ [](\A j, k \in DOMAIN commits : commits[j].rideId = commits[k].rideId => j = k)
  /\ [][/\ (schedules' # schedules /\ pc # "start") =>
             /\ pc = "decide"
             /\ \A d \in 1..Len(drivers) : evals[d].canPerform \in {"true", "false"}
             /\ Len(commits') = Len(commits) + 1
             /\ commits'[Len(commits')].rideId = currentRide._id
             /\ pc' = "loop"
        /\ (rideIdx' # rideIdx) => pc \in {"start", "decide"}
        /\ (pc # "canPerform" /\ pc' = "canPerform" /\ driverIdx' = 1) =>
             /\ pc = "loop"
             /\ Len(commits) <= rideIdx - 1
       ]_vars

\* the second of two drivers was committed a ride after both were evaluated
C24_Witness ==
  /\ pc = "loop"
  /\ Len(drivers) = 2
  /\ commits # << >>
  /\ commits[Len(commits)].driverId = 2
  /\ \A d \in 1..2 : evals[d].canPerform = "true"

\* -------------------------------------------------------------------- C25
IsPrefix(short, long) ==
  Len(short) <= Len(long) /\ SubSeq(long, 1, Len(short)) = short

\* C25: schedules are append-only: from one state of a run to the next,
\* each driver's ride list keeps every ride it holds at the position it
\* holds it, so that a committed ride is never removed, moved in its list
\* or given to another driver.
C25_SchedulesAppendOnly ==
  [][\A d \in DOMAIN schedules :
       /\ d \in DOMAIN schedules'
       /\ IsPrefix(schedules[d].rides, schedules'[d].rides)]_vars

\* a run ended with a driver that was committed a second ride after a first
C25_Witness ==
  /\ pc = "done"
  /\ \E d \in DOMAIN schedules :
       /\ Len(schedules[d].rides) = 2
       /\ schedules[d].rides[1] = commits[1].rideId
       /\ schedules[d].rides[2] = commits[2].rideId

\* -------------------------------------------------------------------- C26
\* C26: the steps that evaluate the drivers for a ride (the entry of
\* findBestDriverForRide, each canDriverPerformRide, each calculateRideCost
\* with the comparison that follows it) leave the schedules as they are:
\* ride lists, base and penalty totals, lastRide.
C26_EvaluationLeavesSchedules ==
  [][(pc \in {"canPerform", "cost"} \/ (pc = "loop" /\ pc' = "canPerform"))
       => schedules' = schedules]_vars

\* a driver that holds a ride was checked and priced for another ride
C26_Witness ==
  /\ pc = "decide"
  /\ \E d \in 1..Len(drivers) :
       /\ schedules[d].rides # << >>
       /\ schedules[d].lastRide # 0
       /\ evals[d].canPerform = "true"
       /\ IsFinite(evals[d].baseCost)

\* -------------------------------------------------------------------- C27
\* C27: the evaluation of one driver for one ride, feasibility check and
\* cost together, calls at most 3 distance or time lookups.
C27_AtMostThreeLookups ==
  \A d \in DOMAIN evals : evals[d].lookups <= 3

\* -------------------------------------------------------------------- C28
\* C28: a driver that is inactive or has fewer seats than the ride requires
\* is rejected before any lookup is called for it; calculateRideCost and its
\* lookups run for a driver only after canDriverPerformRide returned true
\* for that driver and that ride.
C28_RejectBeforeLookups ==
  /\ \A d \in 1..Len(drivers) :
       /\ (/\ Evaluating
           /\ evals[d].canPerform # "none"
           /\ \/ drivers[d].status # "active"
              \/ drivers[d].numberOfSeats < currentRide.numberOfSeats)
            => /\ evals[d].canPerform = "false"
               /\ evals[d].lookups = 0
               /\ evals[d].travelTime = Undefined
       /\ (evals[d].lookups > 1 \/ evals[d].emptyTime # Undefined)
            => evals[d].canPerform = "true"
  /\ pc = "cost" => evals[driverIdx].canPerform = "true"

\* an inactive driver and a driver with too few seats were rejected without
\* a lookup
C28_Witness ==
  /\ Evaluating
  /\ \E d \in 1..Len(drivers) :
       /\ drivers[d].status # "active"
       /\ evals[d].canPerform = "false" /\ evals[d].lookups = 0
  /\ \E d \in 1..Len(drivers) :
       /\ drivers[d].status = "active"
       /\ drivers[d].numberOfSeats < currentRide.numberOfSeats
       /\ evals[d].canPerform = "false" /\ evals[d].lookups = 0

\* -------------------------------------------------------------------- C29
\* C29: with fairness enabled, a commit adds to the driver's running penalty
\* total the penalty of the number of rides the driver held before the
\* ride was appended, which is the penalty that was in the adjusted cost of
\* that driver when it was selected for the ride.
C29_CommittedPenaltyIsSelectedPenalty ==
  [][(Len(commits') = Len(commits) + 1 /\ options.fairnessMode) =>
       LET d     == commits'[Len(commits')].driverId
           added == schedules'[d].penaltyCost - schedules[d].penaltyCost
       IN  /\ d = best.bestDriverId
           /\ Len(schedules'[d].rides) = Len(schedules[d].rides) + 1
           /\ added = computePenalty(Len(schedules[d].rides), options.fairnessWeight)
           /\ added = best.bestAdjustedCost - best.bestBaseCost
           /\ added = evals[d].adjustedCost - evals[d].baseCost
    ]_vars

\* a driver was committed a second ride under a positive penalty
C29_Witness ==
  /\ options.fairnessMode
  /\ pc = "loop"
  /\ Len(commits) = 2
  /\ commits[1].driverId = commits[2].driverId
  /\ schedules[commits[2].driverId].penaltyCost
       = computePenalty(1, options.fairnessWeight)
  /\ schedules[commits[2].driverId].penaltyCost > 0

\* -------------------------------------------------------------------- C30
\* C30 as stated: for each fixed weight, computePenalty increases with the
\* count: c1 < c2 implies computePenalty(c1, w) < computePenalty(c2, w).
C30_PenaltyIncreases ==
  (call.step = "penalized" /\ call.c1 < call.c2) => call.v1 < call.v2

\* C30, amended: for each fixed positive weight, computePenalty increases
\* with the count: c1 < c2 implies computePenalty(c1, w) <
\* computePenalty(c2, w); under the weight 0 it is 0 for every count, and
\* under a negative weight it decreases.
C30_PenaltyIncreasesUnderPositiveWeight ==
  (call.step = "penalized" /\ call.c1 < call.c2) =>
    /\ call.weight > 0 => call.v1 < call.v2
    /\ call.weight = 0 => call.v1 = 0 /\ call.v2 = 0
    /\ call.weight < 0 => call.v1 > call.v2

C30_Witness ==
  /\ call.step = "penalized"
  /\ call.weight = WeightScale \div 2
  /\ call.c1 = 0 /\ call.c2 = 1
  /\ call.v1 = 0
  /\ call.v1 < call.v2

\* -------------------------------------------------------------------- C31
\* the numbers of rides of the drivers a call of the statistics was given
CallCounts ==
  [d \in 1..Cardinality(DOMAIN call.schedules) |-> Len(call.schedules[d].rides)]

CountsAreKept ==
  LET n == Len(CallCounts)
      f == call.fairness
  IN  /\ Len(f.countsPerDriver) = n
      /\ \A d \in 1..n : /\ f.countsPerDriver[d].driverId = d
                         /\ f.countsPerDriver[d].count = CallCounts[d]
      /\ SumOfCounts([d \in 1..n |-> f.countsPerDriver[d].count], n)
           = SumOfCounts(CallCounts, n)

MinAndMaxOfCounts ==
  LET n == Len(CallCounts)
      f == call.fairness
  IN  /\ \E d \in 1..n : CallCounts[d] = f.min
      /\ \E d \in 1..n : CallCounts[d] = f.max
      /\ \A d \in 1..n : f.min <= CallCounts[d] /\ CallCounts[d] <= f.max

\* C31 as stated: the statistics are over the ride counts of all drivers,
\* idle ones included: min and max are the smallest and the largest count,
\* avg is the arithmetic mean with min <= avg <= max, and countsPerDriver
\* has one entry per driver, the counts of which add up to the committed
\* rides.
C31_StatsOverAllDrivers ==
  call.step = "counted" =>
    LET n == Len(CallCounts)
        f == call.fairness
    IN  /\ CountsAreKept
        /\ MinAndMaxOfCounts
        /\ f.avg # NaN
        /\ f.avg * n = StatScale * SumOfCounts(CallCounts, n)
        /\ StatScale * f.min <= f.avg /\ f.avg <= StatScale * f.max

\* C31, amended: for at least one driver, the statistics are over the ride
\* counts of all drivers, idle ones included: min and max are the smallest
\* and the largest count, avg is the arithmetic mean rounded to two
\* decimals with min <= avg <= max, and countsPerDriver has one entry per
\* driver, the counts of which add up to the committed rides. For no driver
\* at all, min is Infinity, max is -Infinity, avg is NaN and countsPerDriver
\* is empty.
C31_StatsOverAllDriversRounded ==
  call.step = "counted" =>
    LET n == Len(CallCounts)
        f == call.fairness
    IN  /\ CountsAreKept
        /\ n > 0 =>
             /\ MinAndMaxOfCounts
             /\ 2 * (f.avg * n - StatScale * SumOfCounts(CallCounts, n)) <= n
             /\ 2 * (StatScale * SumOfCounts(CallCounts, n) - f.avg * n) < n
             /\ StatScale * f.min <= f.avg /\ f.avg <= StatScale * f.max
        /\ n = 0 =>
             /\ f.min = Infinity /\ f.max = 0 - Infinity /\ f.avg = NaN

\* three drivers with 0, 0 and 1 rides: the mean 1/3 is returned as 0.33
C31_Witness ==
  /\ call.step = "counted"
  /\ CallCounts = <<0, 0, 1>>
  /\ call.fairness.min = 0 /\ call.fairness.max = 1
  /\ call.fairness.avg = 33
  /\ Len(call.fairness.countsPerDriver) = 3

\* -------------------------------------------------------------------- C32
\* C32: for a duration of s >= 0 seconds rawTravelTime returns
\* max(1, ceil(s / 60)): at least 1, at least s / 60, and, when above 1,
\* less than a minute above s / 60.
C32_CeilWithFloorOfOne ==
  call.step = "timed" =>
    /\ call.value \in 1..(call.secs + 1)
    /\ call.value * SecondsPerMinute >= call.secs
    /\ call.value > 1 => (call.value - 1) * SecondsPerMinute < call.secs

\* 61 seconds are 2 minutes
C32_Witness ==
  /\ call.step = "timed"
  /\ call.secs = SecondsPerMinute + 1
  /\ call.value = 2

\* -------------------------------------------------------------------- C33
\* the schedules as the draft without the penalty holds them
WithoutPenalty(scheds) ==
  [d \in DOMAIN scheds |-> [rides    |-> scheds[d].rides,
                            baseCost |-> scheds[d].baseCost,
                            lastRide |-> scheds[d].lastRide]]

\* C33: with fairness disabled, the scheduler with the penalty extension
\* takes the steps of the scheduler without it. It starts from the same
\* schedules; on the same answers of the feasibility checks and the cost
\* computations of a ride it selects the same driver at the same base cost,
\* and its commit changes rides, base total and lastRide as the commit of
\* the other does; every running penalty total stays 0.
C33_PenaltyOffIsNoPenaltyDraft ==
  /\ [](~options.fairnessMode =>
          \A d \in DOMAIN schedules : schedules[d].penaltyCost = 0)
  /\ [][~options.fairnessMode =>
          /\ pc = "start" /\ pc' = "loop" =>
               WithoutPenalty(schedules') = initializeSchedulesBase(drivers)
          /\ pc = "decide" =>
               LET bb == findBestDriverForRideBase(
                           [bestDriverId |-> NoDriver, bestAdjustedCost |-> Infinity,
                            bestBaseCost |-> 0],
                           evals, Len(drivers))
               IN  /\ bb.bestDriverId = best.bestDriverId
                   /\ bb.bestBaseCost = best.bestBaseCost
                   /\ WithoutPenalty(schedules') =
                        IF bb.bestDriverId # NoDriver
                        THEN assignRideBase(WithoutPenalty(schedules), bb.bestDriverId,
                                            currentRide, bb.bestBaseCost)
                        ELSE WithoutPenalty(schedules)
          /\ pc \notin {"start", "decide"} => schedules' = schedules
       ]_vars

\* with fairness disabled, one driver was committed two rides and the other
\* driver, also feasible for the second, none
C33_Witness ==
  /\ ~options.fairnessMode
  /\ pc = "loop"
  /\ Len(commits) = 2
  /\ commits[1].driverId = commits[2].driverId
  /\ \A d \in 1..Len(drivers) : evals[d].canPerform = "true"
  /\ Len(drivers) = 2

\* -------------------------------------------------------------------- C34
\* C34: when every ride ends no earlier than it starts, of any two rides in
\* the schedule of one driver the earlier one ends strictly before the later
\* one starts.
C34_NoOverlapInSchedule ==
  (\A i \in 1..Len(rides) :
      parseTimeToMinutes(rides[i].endTime) >= parseTimeToMinutes(rides[i].startTime))
    => \A d \in DOMAIN schedules :
         \A i, j \in DOMAIN schedules[d].rides :
           i < j =>
             parseTimeToMinutes(rides[schedules[d].rides[i]].endTime)
               < parseTimeToMinutes(rides[schedules[d].rides[j]].startTime)

\* -------------------------------------------------------------------- C35
\* C35: for every commit, the empty-travel minutes that are in the committed
\* base cost are the travel time the feasibility check accepted, so that
\* availableTime + these minutes <= the start of the ride, whatever the
\* backend answers to the second request for the pair of places.
C35_ChargedTravelIsAcceptedTravel ==
  \A k \in DOMAIN commits :
    LET c     == commits[k]
        avail == IF c.lastRide # 0
                 THEN parseTimeToMinutes(rides[c.lastRide].endTime) ELSE 0
    IN  /\ JsEq(c.emptyTime, c.travelTime)
        /\ JsLe(JsAdd(avail, c.emptyTime), parseTimeToMinutes(rides[c.rideId].startTime))

\* -------------------------------------------------------------------- C36
\* C36: every committed base cost is a finite number: a driver whose cost
\* for a ride is Infinity or not a number is not selected for it, and the
\* running base total of every driver and the totals of the result are
\* finite in every state.
C36_CommittedCostsAreFinite ==
  /\ \A k \in DOMAIN commits : IsFinite(commits[k].baseCost)
  /\ \A d \in DOMAIN schedules : IsFinite(schedules[d].baseCost)
  /\ IsFinite(result.realTotalCost) /\ IsFinite(result.totalCost)
  /\ \A d \in 1..Len(drivers) :
       (pc = "decide" /\ evals[d].canPerform = "true" /\ ~IsFinite(evals[d].baseCost))
         => best.bestDriverId # d

\* of two feasible drivers, one had a cost that is not a number and the
\* other one was committed at a finite cost
C36_Witness ==
  /\ JustDecided
  /\ \E d \in 1..Len(drivers) :
       /\ evals[d].canPerform = "true"
       /\ evals[d].baseCost = NaN
  /\ LastCommitted
  /\ evals[commits[Len(commits)].driverId].canPerform = "true"
  /\ IsFinite(commits[Len(commits)].baseCost)

\* -------------------------------------------------------------------- C37
\* C37: a commit changes the schedule of the chosen driver only: ride list,
\* base total, penalty total and lastRide of every other driver are after
\* the commit what they were before it.
C37_CommitLeavesOtherDrivers ==
  [][Len(commits') = Len(commits) + 1 =>
       LET chosen == commits'[Len(commits')].driverId
       IN  /\ schedules'[chosen] # schedules[chosen]
           /\ \A d \in DOMAIN schedules :
                d # chosen => schedules'[d] = schedules[d]
    ]_vars

\* a driver was committed a ride while the other driver holds one
C37_Witness ==
  /\ Len(commits) = 2
  /\ commits[1].driverId # commits[2].driverId
  /\ schedules[commits[1].driverId].rides = <<commits[1].rideId>>
  /\ schedules[commits[1].driverId].lastRide = commits[1].rideId
  /\ schedules[commits[1].driverId].baseCost = commits[1].baseCost

\* -------------------------------------------------------------------- C38
\* C38: in every state, the lastRide of a driver is null exactly when its
\* ride list is empty and is the last element of the list otherwise, and a
\* driver with an empty ride list has the base total 0.
C38_LastRideIsLastOfList ==
  \A d \in DOMAIN schedules :
    LET sched == schedules[d]
    IN  /\ (sched.lastRide = 0) = (sched.rides = << >>)
        /\ sched.rides # << >> => sched.lastRide = sched.rides[Len(sched.rides)]
        /\ sched.rides = << >> => sched.baseCost = 0

\* one driver holds two rides, the other none
C38_Witness ==
  /\ Len(drivers) = 2
  /\ \E d \in DOMAIN schedules :
       /\ Len(schedules[d].rides) = 2
       /\ schedules[d].lastRide = schedules[d].rides[2]
  /\ \E d \in DOMAIN schedules :
       /\ schedules[d].rides = << >>
       /\ schedules[d].lastRide = 0

====
